---- MODULE Spec2Model ----
(***************************************************************************)
(* Grid Trading Engine (src/src/strategies/grid_trading_engine.py).        *)
(*                                                                         *)
(* The engine is an asyncio object.  Every `await` of the exchange         *)
(* collaborator (get_ticker, place_order, cancel_order) is a suspension    *)
(* point; everything between two suspension points runs without           *)
(* interruption and is one step of the model.  Three tasks are modelled:   *)
(* the monitor loop (mon), one create_grid call (cg) and one               *)
(* stop_all_grids call (sa); stop_grid has no suspension point and is one  *)
(* step.                                                                   *)
(*                                                                         *)
(* Python objects are kept on heaps (orders, grids) and referred to by     *)
(* handle, because the code holds references that outlive the dictionary   *)
(* entries (a level keeps its order after grid_orders.clear(), a tick      *)
(* keeps its grid after `del active_grids[grid_id]`).  Dictionaries are    *)
(* sequences of entries in insertion order.                                *)
(*                                                                         *)
(* Units: prices are integers in 1/200 of a quote unit, percentages of     *)
(* grid spacing in 1/10 percent, profit target in percent; amounts and     *)
(* profits are exact fractions [n, d].                                     *)
(*                                                                         *)
(* The ladder record is the GridLevel of lines 52-58 (level, price,        *)
(* buy_order, sell_order), the record that _place_initial_grid_orders and  *)
(* _check_filled_orders read and write.  The module rebinds the name       *)
(* GridLevel at line 105 to the visualization record, so the constructor   *)
(* call in _calculate_grid_levels raises in the loaded module; that call   *)
(* is CallCalculateGridLevels, examined on its own under SpecCalc.  The    *)
(* engine actions use the ladder record, i.e. they describe the engine     *)
(* with the two classes told apart, which is the only reading under which  *)
(* any order is ever placed.                                               *)
(***************************************************************************)
EXTENDS Integers, Sequences, FiniteSets, TLC

VARIABLES
    now,                  \* int(time.time())
    orders,               \* heap of GridOrder objects
    grids,                \* heap of grid_data dicts
    active_grids,         \* self.active_grids : grid_id -> grid object
    grid_orders,          \* self.grid_orders  : order_id -> order object
    grid_stats,           \* self.grid_stats   : grid_id -> GridStats
    total_profit,         \* self.total_profit
    total_cycles,         \* self.total_cycles
    total_grids_created,  \* self.total_grids_created
    exchange_open,        \* orders accepted by the exchange and not confirmed cancelled
    mon,                  \* the monitor_grids task
    cg,                   \* a create_grid call
    sa,                   \* a stop_all_grids call
    phase_tracker,        \* self.phase_tracker (PhaseTracker)
    auto_compound_enabled,\* self.auto_compound_enabled
    last_rebalance_time,  \* self.last_rebalance_time
    ac,                   \* an auto_compound_and_rebalance call
    calc,                 \* a call of a level or spacing computation and its result
    market_volatility_cache, \* self.market_volatility_cache : cache_key -> MarketVolatility
    vc,                   \* the calculate_market_volatility calls in progress
    active_cycles,        \* self.active_cycles : cycle_id -> CycleMetrics
    cycle_metrics,        \* self.cycle_metrics : symbol -> list of CycleMetrics
    performance_analytics,\* self.performance_analytics : symbol -> PerformanceAnalytics
    completed_cycles,     \* self.completed_cycles : list of CompletedCycle
    daily_pnl             \* self.daily_pnl : day -> profit of the day

vars == <<now, orders, grids, active_grids, grid_orders, grid_stats, total_profit,
          total_cycles, total_grids_created, exchange_open, mon, cg, sa,
          phase_tracker, auto_compound_enabled, last_rebalance_time, ac, calc,
          market_volatility_cache, vc, active_cycles, cycle_metrics,
          performance_analytics, completed_cycles, daily_pnl>>

(* The state of the volatility cache and of the cycle analytics *)
yvars == <<market_volatility_cache, vc, active_cycles, cycle_metrics,
           performance_analytics, completed_cycles, daily_pnl>>

(* The state of the phase tracker, the auto-compounder, the calculators,   *)
(* the volatility cache and the cycle analytics                            *)
xvars == <<phase_tracker, auto_compound_enabled, last_rebalance_time, ac, calc, yvars>>

----------------------------------------------------------------------------
(* Bounds of the model *)

MaxTime == 1     \* seconds the clock advances
MaxOrders == 2   \* ladder levels (initial orders) over all grids created
MaxGrids == 2    \* create_grid calls that build a grid
MaxCycles == 9   \* cycles recorded in the phase tracker
MaxClock == 3601 \* seconds the clock advances over a rebalance interval
MaxFailures == 1 \* exchange calls that fail during one rebalance

(* Inputs *)

Symbols == {"PEPE/USDT"}
TickerPrices == {19800, 20000}
PlaceOutcomes == {"ok", "rejected", "raised"}
CancelOutcomes == {"ok", "rejected", "raised"}
UserConfigs ==
    {[levels_above |-> 1, levels_below |-> 1, use_smart_range |-> FALSE],
     [levels_above |-> 0, levels_below |-> 2, use_smart_range |-> FALSE,
      max_capital_usd |-> 30],
     [levels_above |-> 0, levels_below |-> 1, use_smart_range |-> TRUE]}
SmartRanges ==
    {[final_spacing_pct |-> 5, volatility_regime |-> "MEDIUM"]}
Capitals == {500, 1000, 6000, 20000, 100000}   \* dollars
CycleProfits == {50}
Balances == {100, 2000}                        \* dollars
ClockJumps == {3600, 3601}
CenterPrices == {20000}
RebalanceSmartRanges == {[final_spacing_pct |-> 4, volatility_regime |-> "LOW"]}
RebalanceUserConfigs ==
    {[levels_above |-> 0, levels_below |-> 1, use_smart_range |-> FALSE]}

----------------------------------------------------------------------------
(* Values *)

None == 0

GridOrderStatus == {"pending", "active", "filled", "cancelled"}

Frac(n, d) == [n |-> n, d |-> d]
FracZero == Frac(0, 1)
FracAdd(a, b) ==
    IF a.d = b.d THEN Frac(a.n + b.n, a.d) ELSE Frac(a.n * b.d + b.n * a.d, a.d * b.d)
FracMul(k, a) == Frac(k * a.n, a.d)
FracEq(a, b) == a.n * b.d = b.n * a.d
FracPos(a) == a.n * a.d > 0

default_config ==
    [grid_spacing_pct |-> 5, levels_above |-> 5, levels_below |-> 5,
     order_size_usd |-> 20, profit_target_pct |-> 1, stop_loss_pct |-> 5,
     max_capital_usd |-> 100]

(* Dictionaries: sequences of [key, ref] in insertion order *)

DictKeys(d) == [i \in 1..Len(d) |-> d[i].key]
DictHas(d, k) == \E i \in 1..Len(d) : d[i].key = k
DictGet(d, k) == d[CHOOSE i \in 1..Len(d) : d[i].key = k].ref
DictPut(d, k, v) ==
    IF DictHas(d, k)
    THEN [i \in 1..Len(d) |-> IF d[i].key = k THEN [key |-> k, ref |-> v] ELSE d[i]]
    ELSE Append(d, [key |-> k, ref |-> v])
DictDel(d, k) == SelectSeq(d, LAMBDA e : e.key # k)

Put(f, k, v) == [x \in (DOMAIN f) \cup {k} |-> IF x = k THEN v ELSE f[x]]

(* GridOrder(...) with status PENDING.  submit and attempts record the     *)
(* place_order calls made for the object.                                  *)
GridOrder(order_id, grid_id, side, price, amount, level) ==
    [order_id |-> order_id, grid_id |-> grid_id, side |-> side, price |-> price,
     amount |-> amount, level |-> level, status |-> "pending",
     filled_price |-> None, profit |-> FracZero, exchange_order_id |-> FALSE,
     submit |-> "none", attempts |-> 0]

GridLevel(level, price) ==
    [level |-> level, price |-> price, buy_order |-> None, sell_order |-> None]

GridStats(grid_id) ==
    [grid_id |-> grid_id, total_cycles |-> 0, profitable_cycles |-> 0,
     total_profit |-> FracZero, active_orders |-> 0]

OrderId(side, grid_id, level, t) == <<side, grid_id, level, t>>
GridId(symbol, t) == <<symbol, t>>

----------------------------------------------------------------------------
(* create_grid *)

AdjustLevels(regime, n) ==
    IF regime = "LOW" THEN (IF n + 2 < 8 THEN n + 2 ELSE 8)
    ELSE IF regime = "HIGH" THEN (IF n - 1 > 3 THEN n - 1 ELSE 3)
    ELSE IF regime = "EXTREME" THEN (IF n - 2 > 2 THEN n - 2 ELSE 2)
    ELSE n

GridConfiguration(symbol, current_price, config, smart) ==
    LET grid_config == config @@ default_config
        use_smart == IF "use_smart_range" \in DOMAIN grid_config
                     THEN grid_config.use_smart_range ELSE TRUE
    IN  [symbol |-> symbol,
         center_price |-> current_price,
         grid_spacing_pct |-> IF use_smart THEN smart.final_spacing_pct
                              ELSE grid_config.grid_spacing_pct,
         levels_above |-> IF use_smart
                          THEN AdjustLevels(smart.volatility_regime, grid_config.levels_above)
                          ELSE grid_config.levels_above,
         levels_below |-> IF use_smart
                          THEN AdjustLevels(smart.volatility_regime, grid_config.levels_below)
                          ELSE grid_config.levels_below,
         order_size_usd |-> grid_config.order_size_usd,
         profit_target_pct |-> grid_config.profit_target_pct,
         max_capital_usd |-> grid_config.max_capital_usd,
         use_smart_range |-> use_smart]

(* levels sorted by level index: -levels_below .. -1, 1 .. levels_above *)
_calculate_grid_levels(config) ==
    LET price_increment == (config.center_price * config.grid_spacing_pct) \div 1000
        nb == config.levels_below
        na == config.levels_above
    IN  [j \in 1..(nb + na) |->
            IF j <= nb
            THEN GridLevel(-(nb + 1 - j), config.center_price - price_increment * (nb + 1 - j))
            ELSE GridLevel(j - nb, config.center_price + price_increment * (j - nb))]

IdleCreate ==
    [pc |-> "idle", symbol |-> "", config |-> <<>>, grid_id |-> <<>>, grid |-> None,
     k |-> 0, order |-> None, orders_placed |-> 0, capital |-> 0]

(* The result of submitting order object h (the body of _create_grid_order *)
(* after place_order returned).  The enum has no FAILED member, so the     *)
(* assignment of GridOrderStatus.FAILED raises AttributeError, which the   *)
(* outer handler turns into `return None`: the object keeps its status and *)
(* is not stored.                                                          *)
PlaceResult(os, go, h, outcome) ==
    LET sent == [os EXCEPT ![h].submit = IF outcome = "ok" THEN "ok" ELSE "failed"]
    IN  IF outcome = "ok"
        THEN [orders |-> [sent EXCEPT ![h].status = "active", ![h].exchange_order_id = TRUE],
              grid_orders |-> DictPut(go, os[h].order_id, h),
              order |-> h]
        ELSE [orders |-> IF "failed" \in GridOrderStatus
                         THEN [sent EXCEPT ![h].status = "failed"]
                         ELSE sent,
              grid_orders |-> go,
              order |-> None]

(* The order object built by _create_grid_order, at its place_order call *)
Submitted(o) == [o EXCEPT !.submit = "sent", !.attempts = @ + 1]

(* _place_initial_grid_orders from level index k up to its next place_order call *)
RECURSIVE PlaceInitialFrom(_, _, _, _, _, _)
PlaceInitialFrom(os, gs, go, gref, k, t) ==
    LET levels == gs[gref].levels
        config == gs[gref].config
        grid_id == gs[gref].grid_id
    IN  IF k > Len(levels)
        THEN [orders |-> os, grids |-> gs, grid_orders |-> go, k |-> k, order |-> None]
        ELSE LET level == levels[k]
                 order_amount == Frac(config.order_size_usd, level.price)
                 h == Len(os) + 1
             IN  IF level.level < 0
                 THEN [orders |-> Append(os, Submitted(GridOrder(
                                      OrderId("buy", grid_id, level.level, t), grid_id,
                                      "buy", level.price, order_amount, level.level))),
                       grids |-> gs, grid_orders |-> go, k |-> k, order |-> h]
                 ELSE IF level.level > 0
                 THEN PlaceInitialFrom(
                          Append(os, GridOrder(OrderId("sell", grid_id, level.level, t),
                                               grid_id, "sell", level.price, order_amount,
                                               level.level)),
                          [gs EXCEPT ![gref].levels[k].sell_order = h],
                          DictPut(go, OrderId("sell", grid_id, level.level, t), h),
                          gref, k + 1, t)
                 ELSE PlaceInitialFrom(os, gs, go, gref, k + 1, t)

(* The rest of create_grid once _place_initial_grid_orders has reached its *)
(* next place_order call (r.order # None) or its end.                      *)
CreateStep(r, placed, capital, stats) ==
    LET grid_id == r.grids[cg.grid].grid_id IN
    /\ orders' = r.orders
    /\ grid_orders' = r.grid_orders
    /\ IF r.order # None
       THEN /\ grids' = r.grids
            /\ grid_stats' = stats
            /\ total_grids_created' = total_grids_created
            /\ cg' = [cg EXCEPT !.pc = "place", !.k = r.k, !.order = r.order,
                                !.orders_placed = placed, !.capital = capital]
       ELSE /\ grids' = [r.grids EXCEPT ![cg.grid].total_invested = capital]
            /\ grid_stats' = [stats EXCEPT ![grid_id].active_orders = placed]
            /\ total_grids_created' = total_grids_created + 1
            /\ cg' = IdleCreate

CreateCall(symbol, config) ==
    /\ cg.pc = "idle"
    /\ cg' = [IdleCreate EXCEPT !.pc = "ticker", !.symbol = symbol, !.config = config,
                                !.grid_id = GridId(symbol, now)]
    /\ UNCHANGED <<now, orders, grids, active_grids, grid_orders, grid_stats, total_profit,
                   total_cycles, total_grids_created, exchange_open, mon, sa>>
    /\ UNCHANGED xvars

CreateTickerRaise ==
    /\ cg.pc = "ticker"
    /\ cg' = IdleCreate
    /\ UNCHANGED <<now, orders, grids, active_grids, grid_orders, grid_stats, total_profit,
                   total_cycles, total_grids_created, exchange_open, mon, sa>>
    /\ UNCHANGED xvars

CreateTickerReturn(current_price, smart) ==
    /\ cg.pc = "ticker"
    /\ LET config == GridConfiguration(cg.symbol, current_price, cg.config, smart)
           gref == Len(grids) + 1
           grid_data == [grid_id |-> cg.grid_id, config |-> config,
                         levels |-> _calculate_grid_levels(config), status |-> "active",
                         total_invested |-> 0, realized_pnl |-> FracZero]
           r == PlaceInitialFrom(orders, Append(grids, grid_data), grid_orders, gref, 1, now)
       IN  /\ Len(grids) < MaxGrids
           /\ Cardinality(UNION {{<<g, k>> : k \in 1..Len(grids[g].levels)} :
                                  g \in 1..Len(grids)})
                  + config.levels_below + config.levels_above <= MaxOrders
           /\ active_grids' = DictPut(active_grids, cg.grid_id, gref)
           /\ orders' = r.orders
           /\ grid_orders' = r.grid_orders
           /\ IF r.order # None
              THEN /\ grids' = r.grids
                   /\ grid_stats' = Put(grid_stats, cg.grid_id, GridStats(cg.grid_id))
                   /\ total_grids_created' = total_grids_created
                   /\ cg' = [cg EXCEPT !.pc = "place", !.grid = gref, !.k = r.k,
                                       !.order = r.order]
              ELSE /\ grids' = [r.grids EXCEPT ![gref].total_invested = 0]
                   /\ grid_stats' = Put(grid_stats, cg.grid_id, GridStats(cg.grid_id))
                   /\ total_grids_created' = total_grids_created + 1
                   /\ cg' = IdleCreate
    /\ UNCHANGED <<now, total_profit, total_cycles, exchange_open, mon, sa>>
    /\ UNCHANGED xvars

CreatePlaceReturn(outcome) ==
    /\ cg.pc = "place"
    /\ LET pr == PlaceResult(orders, grid_orders, cg.order, outcome)
           ok == pr.order # None
           gs1 == IF ok THEN [grids EXCEPT ![cg.grid].levels[cg.k].buy_order = pr.order]
                  ELSE grids
           placed == cg.orders_placed + (IF ok THEN 1 ELSE 0)
           capital == cg.capital + (IF ok THEN grids[cg.grid].config.order_size_usd ELSE 0)
           r == PlaceInitialFrom(pr.orders, gs1, pr.grid_orders, cg.grid, cg.k + 1, now)
       IN  CreateStep(r, placed, capital, grid_stats)
    /\ exchange_open' = IF outcome = "ok" THEN exchange_open \cup {cg.order}
                        ELSE exchange_open
    /\ UNCHANGED <<now, active_grids, total_profit, total_cycles, mon, sa>>
    /\ UNCHANGED xvars

----------------------------------------------------------------------------
(* monitor_grids *)

IdleMon ==
    [pc |-> "sleep", slept_at |-> -1, todo |-> <<>>, grid_id |-> <<>>, grid |-> None,
     price |-> 0, k |-> 0, purpose |-> "none", order |-> None, src |-> None,
     tgrid |-> None, tk |-> 0, checked |-> <<>>, created |-> {}]

(* created is the set of order objects the running tick has created.       *)
(* The for loop of monitor_grids: _monitor_grid of the next grid up to its *)
(* get_ticker call; a grid_id that left active_grids raises KeyError in    *)
(* _monitor_grid and is skipped; after the last grid, asyncio.sleep(5).    *)
MonNext(m, todo, ag, t) ==
    IF \E i \in 1..Len(todo) : DictHas(ag, todo[i])
    THEN LET i == CHOOSE j \in 1..Len(todo) :
                      /\ DictHas(ag, todo[j])
                      /\ \A l \in 1..(j - 1) : ~DictHas(ag, todo[l])
         IN  [IdleMon EXCEPT !.pc = "ticker", !.slept_at = m.slept_at,
                             !.todo = SubSeq(todo, i + 1, Len(todo)),
                             !.grid_id = todo[i], !.checked = m.checked,
                             !.created = m.created]
    ELSE [IdleMon EXCEPT !.slept_at = t, !.checked = m.checked]

_fill_order_late(os, h, fill_price) == os

_fill_order(os, h, fill_price) ==
    [os EXCEPT ![h].status = "filled", ![h].filled_price = fill_price]

FirstLevel(levels, n) ==
    IF \E j \in 1..Len(levels) : levels[j].level = n
    THEN CHOOSE j \in 1..Len(levels) :
             /\ levels[j].level = n
             /\ \A l \in 1..(j - 1) : levels[l].level # n
    ELSE 0

(* _check_filled_orders from level index k (stage "buy": the buy check of  *)
(* the level, "sell": its sell check) up to the next place_order call or   *)
(* the end of the loop.  c holds the locals: grid (object), grid_id,       *)
(* price (current_price), ag (self.active_grids), t (clock).               *)
RECURSIVE CheckFilledFrom(_, _, _, _)
CheckFilledFrom(st, c, k, stage) ==
    LET levels == st.grids[c.grid].levels IN
    IF k > Len(levels)
    THEN [st |-> st, k |-> k, purpose |-> "none", order |-> None, src |-> None,
          tgrid |-> None, tk |-> 0]
    ELSE
    LET level == levels[k] IN
    IF stage = "buy"
    THEN IF /\ level.buy_order # None
            /\ st.orders[level.buy_order].status = "active"
            /\ c.price <= st.orders[level.buy_order].price
         THEN LET b == level.buy_order
                  os1 == _fill_order(st.orders, b, c.price)
              IN  \* _create_profit_sell_order
                  IF DictHas(c.ag, c.grid_id)
                  THEN LET config == st.grids[DictGet(c.ag, c.grid_id)].config
                           sell_price == (os1[b].filled_price * (100 + config.profit_target_pct)) \div 100
                           o == GridOrder(OrderId("sell", c.grid_id, os1[b].level + 1000, c.t),
                                          c.grid_id, "sell", sell_price, os1[b].amount,
                                          os1[b].level + 1000)
                       IN  [st |-> [st EXCEPT !.orders = Append(os1, Submitted(o))],
                            k |-> k, purpose |-> "sell", order |-> Len(os1) + 1, src |-> b,
                            tgrid |-> None, tk |-> 0]
                  ELSE CheckFilledFrom([st EXCEPT !.orders = os1], c, k, "sell")
         ELSE CheckFilledFrom(st, c, k, "sell")
    ELSE IF /\ level.sell_order # None
            /\ st.orders[level.sell_order].status = "active"
            /\ c.price >= st.orders[level.sell_order].price
         THEN LET s == level.sell_order
                  os1 == _fill_order(st.orders, s, c.price)
                  profit == os1[s].profit
                  \* _complete_profit_cycle
                  stats1 == [st.grid_stats EXCEPT
                                ![c.grid_id].total_cycles = @ + 1,
                                ![c.grid_id].total_profit = FracAdd(@, profit),
                                ![c.grid_id].profitable_cycles =
                                    IF FracPos(profit) THEN @ + 1 ELSE @]
                  st1 == [st EXCEPT !.orders = os1, !.grid_stats = stats1]
              IN  IF ~DictHas(c.ag, c.grid_id)
                  THEN CheckFilledFrom(st1, c, k + 1, "buy")
                  ELSE
                  LET g == DictGet(c.ag, c.grid_id)
                      st2 == [st1 EXCEPT !.grids[g].realized_pnl = FracAdd(@, profit),
                                         !.total_profit = FracAdd(@, profit),
                                         !.total_cycles = @ + 1]
                      \* _replace_filled_buy_order
                      config == st2.grids[g].config
                      original_level == os1[s].level - 1000
                      j == FirstLevel(st2.grids[g].levels, original_level)
                  IN  IF j = 0
                      THEN CheckFilledFrom(st2, c, k + 1, "buy")
                      ELSE LET lv == st2.grids[g].levels[j]
                               o == GridOrder(OrderId("buy", c.grid_id, lv.level, c.t),
                                              c.grid_id, "buy", lv.price,
                                              Frac(config.order_size_usd, lv.price), lv.level)
                           IN  [st |-> [st2 EXCEPT !.orders = Append(@, Submitted(o))],
                                k |-> k, purpose |-> "buy", order |-> Len(st2.orders) + 1,
                                src |-> s, tgrid |-> g, tk |-> j]
         ELSE CheckFilledFrom(st, c, k + 1, "buy")

MonState ==
    [orders |-> orders, grids |-> grids, grid_orders |-> grid_orders,
     grid_stats |-> grid_stats, total_profit |-> total_profit,
     total_cycles |-> total_cycles]

(* The rest of _monitor_grid after _check_filled_orders reached a          *)
(* place_order call (r.order # None) or finished the grid.                 *)
MonStep(r, c) ==
    /\ orders' = r.st.orders
    /\ grids' = r.st.grids
    /\ grid_orders' = r.st.grid_orders
    /\ grid_stats' = r.st.grid_stats
    /\ total_profit' = r.st.total_profit
    /\ total_cycles' = r.st.total_cycles
    /\ mon' = IF r.order # None
              THEN [mon EXCEPT !.pc = "place", !.grid = c.grid, !.price = c.price,
                               !.k = r.k, !.purpose = r.purpose, !.order = r.order,
                               !.src = r.src, !.tgrid = r.tgrid, !.tk = r.tk,
                               !.created = @ \cup {r.order}]
              ELSE MonNext([mon EXCEPT !.checked = <<c.grid_id, c.price>>],
                           mon.todo, c.ag, c.t)

MonitorBegin ==
    /\ mon.pc = "sleep"
    /\ now > mon.slept_at
    /\ mon' = MonNext([mon EXCEPT !.checked = <<>>], DictKeys(active_grids),
                      active_grids, now)
    /\ UNCHANGED <<now, orders, grids, active_grids, grid_orders, grid_stats, total_profit,
                   total_cycles, total_grids_created, exchange_open, cg, sa>>
    /\ UNCHANGED xvars

(* get_ticker raising out of _monitor_grid into the handler of             *)
(* monitor_grids, which sleeps and starts a new tick                       *)
MonTickerRaise_abort ==
    /\ mon.pc = "ticker"
    /\ mon' = [IdleMon EXCEPT !.slept_at = now, !.checked = mon.checked]
    /\ UNCHANGED <<now, orders, grids, active_grids, grid_orders, grid_stats, total_profit,
                   total_cycles, total_grids_created, exchange_open, cg, sa>>
    /\ UNCHANGED xvars

MonTickerRaise ==
    /\ mon.pc = "ticker"
    /\ mon' = MonNext(mon, mon.todo, active_grids, now)
    /\ UNCHANGED <<now, orders, grids, active_grids, grid_orders, grid_stats, total_profit,
                   total_cycles, total_grids_created, exchange_open, cg, sa>>
    /\ UNCHANGED xvars

MonTickerReturn(current_price) ==
    /\ mon.pc = "ticker"
    /\ Len(orders) <= 2 * MaxOrders
    /\ IF DictHas(active_grids, mon.grid_id)
       THEN LET c == [grid |-> DictGet(active_grids, mon.grid_id), grid_id |-> mon.grid_id,
                      price |-> current_price, ag |-> active_grids, t |-> now]
            IN  MonStep(CheckFilledFrom(MonState, c, 1, "buy"), c)
       ELSE /\ mon' = MonNext(mon, mon.todo, active_grids, now)
            /\ UNCHANGED <<orders, grids, grid_orders, grid_stats, total_profit,
                           total_cycles>>
    /\ UNCHANGED <<now, active_grids, total_grids_created, exchange_open, cg, sa>>
    /\ UNCHANGED xvars

MonPlaceReturn(outcome) ==
    /\ mon.pc = "place"
    /\ LET pr == PlaceResult(orders, grid_orders, mon.order, outcome)
           ok == pr.order # None
           os1 == IF ok /\ mon.purpose = "sell"
                  THEN [pr.orders EXCEPT ![mon.order].profit =
                            FracMul(pr.orders[mon.order].price
                                        - pr.orders[mon.src].filled_price,
                                    pr.orders[mon.src].amount)]
                  ELSE pr.orders
           gs1 == IF ok /\ mon.purpose = "buy"
                  THEN [grids EXCEPT ![mon.tgrid].levels[mon.tk].buy_order = mon.order]
                  ELSE grids
           st == [MonState EXCEPT !.orders = os1, !.grids = gs1,
                                  !.grid_orders = pr.grid_orders]
           c == [grid |-> mon.grid, grid_id |-> mon.grid_id, price |-> mon.price,
                 ag |-> active_grids, t |-> now]
       IN  MonStep(IF mon.purpose = "sell"
                   THEN CheckFilledFrom(st, c, mon.k, "sell")
                   ELSE CheckFilledFrom(st, c, mon.k + 1, "buy"), c)
    /\ exchange_open' = IF outcome = "ok" THEN exchange_open \cup {mon.order}
                        ELSE exchange_open
    /\ UNCHANGED <<now, active_grids, total_grids_created, cg, sa>>
    /\ UNCHANGED xvars

----------------------------------------------------------------------------
(* stop_all_grids, stop_grid *)

IdleStop ==
    [pc |-> "idle", todo |-> <<>>, grid_id |-> <<>>, grid |-> None, items |-> <<>>,
     order |-> None, grids_stopped |-> 0, orders_canceled |-> 0, capital_released |-> 0]

(* The inner loop over list(self.grid_orders.items()) up to the next       *)
(* cancel_order call or its end.                                           *)
RECURSIVE StopItems(_, _, _, _)
StopItems(os, items, grid_id, canceled) ==
    IF items = <<>>
    THEN [orders |-> os, items |-> <<>>, order |-> None, canceled |-> canceled]
    ELSE LET h == Head(items) IN
         IF os[h].grid_id = grid_id /\ os[h].status = "active"
         THEN IF os[h].exchange_order_id
              THEN [orders |-> os, items |-> Tail(items), order |-> h,
                    canceled |-> canceled]
              ELSE StopItems([os EXCEPT ![h].status = "cancelled"], Tail(items),
                             grid_id, canceled + 1)
         ELSE StopItems(os, Tail(items), grid_id, canceled)

StopFailed(os, ag, go, s) ==
    [orders |-> os, active_grids |-> ag, grid_orders |-> go,
     sa |-> IdleStop, success |-> FALSE]

(* The outer loop over list(self.active_grids.keys()); a KeyError leaves   *)
(* through the handler of stop_all_grids with success False.               *)
RECURSIVE StopGridsFrom(_, _, _, _, _)
RECURSIVE StopGridEnd(_, _, _, _, _)
StopGridsFrom(os, ag, go, s, todo) ==
    IF todo = <<>>
    THEN [orders |-> os, active_grids |-> ag, grid_orders |-> <<>>,
          sa |-> IdleStop, success |-> TRUE]
    ELSE LET grid_id == Head(todo) IN
         IF ~DictHas(ag, grid_id)
         THEN StopFailed(os, ag, go, s)
         ELSE LET r == StopItems(os, [i \in 1..Len(go) |-> go[i].ref], grid_id,
                                 s.orders_canceled)
                  s1 == [s EXCEPT !.grid_id = grid_id, !.grid = DictGet(ag, grid_id),
                                  !.orders_canceled = r.canceled, !.todo = Tail(todo)]
              IN  IF r.order # None
                  THEN [orders |-> r.orders, active_grids |-> ag, grid_orders |-> go,
                        sa |-> [s1 EXCEPT !.pc = "cancel", !.items = r.items,
                                          !.order = r.order],
                        success |-> TRUE]
                  ELSE StopGridEnd(r.orders, ag, go, s1, Tail(todo))

StopGridEnd(os, ag, go, s, todo) ==
    IF ~DictHas(ag, s.grid_id)
    THEN StopFailed(os, ag, go, s)
    ELSE StopGridsFrom(os, DictDel(ag, s.grid_id), go,
                       [s EXCEPT !.capital_released = @ + grids[s.grid].total_invested,
                                 !.grids_stopped = @ + 1],
                       todo)

StopAllCall ==
    /\ sa.pc = "idle"
    /\ LET r == IF active_grids = <<>>
                THEN [orders |-> orders, active_grids |-> active_grids,
                      grid_orders |-> grid_orders,
                      sa |-> IdleStop]
                ELSE StopGridsFrom(orders, active_grids, grid_orders, IdleStop,
                                   DictKeys(active_grids))
       IN  /\ orders' = r.orders
           /\ active_grids' = r.active_grids
           /\ grid_orders' = r.grid_orders
           /\ sa' = r.sa
    /\ UNCHANGED <<now, grids, grid_stats, total_profit, total_cycles, total_grids_created,
                   exchange_open, mon, cg>>
    /\ UNCHANGED xvars

(* stop_all_grids from the return of cancel_order for s.order up to its    *)
(* next cancel_order call or its end.                                      *)
StopAfterCancel(os, ag, go, s, outcome) ==
    LET ok == outcome = "ok"
        os1 == IF ok THEN [os EXCEPT ![s.order].status = "cancelled"] ELSE os
        r1 == StopItems(os1, s.items, s.grid_id,
                        s.orders_canceled + (IF ok THEN 1 ELSE 0))
        s1 == [s EXCEPT !.orders_canceled = r1.canceled]
    IN  IF r1.order # None
        THEN [orders |-> r1.orders, active_grids |-> ag, grid_orders |-> go,
              sa |-> [s1 EXCEPT !.items = r1.items, !.order = r1.order],
              success |-> TRUE]
        ELSE StopGridEnd(r1.orders, ag, go, s1, s.todo)

StopAllCancelReturn(outcome) ==
    /\ sa.pc = "cancel"
    /\ LET r == StopAfterCancel(orders, active_grids, grid_orders, sa, outcome)
       IN  /\ orders' = r.orders
           /\ active_grids' = r.active_grids
           /\ grid_orders' = r.grid_orders
           /\ sa' = r.sa
    /\ exchange_open' = IF outcome = "ok" THEN exchange_open \ {sa.order}
                        ELSE exchange_open
    /\ UNCHANGED <<now, grids, grid_stats, total_profit, total_cycles, total_grids_created,
                   mon, cg>>
    /\ UNCHANGED xvars

stop_grid(grid_id) ==
    /\ DictHas(active_grids, grid_id)
    /\ orders' = [h \in 1..Len(orders) |->
                     IF /\ \E i \in 1..Len(grid_orders) : grid_orders[i].ref = h
                        /\ orders[h].grid_id = grid_id
                        /\ orders[h].status = "active"
                     THEN [orders[h] EXCEPT !.status = "cancelled"]
                     ELSE orders[h]]
    /\ grids' = [grids EXCEPT ![DictGet(active_grids, grid_id)].status = "stopped"]
    /\ UNCHANGED <<now, active_grids, grid_orders, grid_stats, total_profit, total_cycles,
                   total_grids_created, exchange_open, mon, cg, sa>>
    /\ UNCHANGED xvars

----------------------------------------------------------------------------
(* PhaseTracker *)

(* PhaseInfo; an Optional[float] time is <<>> (None) or <<t>> *)
PhaseInfo(phase_number, start_capital, target_capital, target_cycles, current_capital) ==
    [phase_number |-> phase_number, start_capital |-> start_capital,
     target_capital |-> target_capital, target_cycles |-> target_cycles,
     completed_cycles |-> 0, current_capital |-> current_capital,
     is_complete |-> FALSE, start_time |-> <<>>, end_time |-> <<>>]

(* PhaseTracker.__init__ *)
PhaseTracker(starting_capital, t) ==
    [starting_capital |-> starting_capital, current_phase |-> 1,
     total_cycles_completed |-> 0, total_profit |-> 0, start_time |-> t,
     phases |-> [k \in 1..4 |->
         CASE k = 1 -> [PhaseInfo(1, 200, 1000, 8, starting_capital)
                            EXCEPT !.start_time = <<t>>]
           [] k = 2 -> PhaseInfo(2, 1000, 5000, 8, 0)
           [] k = 3 -> PhaseInfo(3, 5000, 20000, 6, 0)
           [] k = 4 -> PhaseInfo(4, 20000, 100000, 6, 0)]]

_complete_phase(pt, t) ==
    LET k == pt.current_phase
        sealed == [pt EXCEPT !.phases[k].is_complete = TRUE, !.phases[k].end_time = <<t>>]
    IN  IF k < 4
        THEN [sealed EXCEPT !.current_phase = k + 1,
                            !.phases[k + 1].start_time = <<t>>,
                            !.phases[k + 1].current_capital =
                                sealed.phases[k].current_capital]
        ELSE sealed

(* update_capital with the phase following the capital downwards *)
update_capital_regress(pt, new_capital, t) ==
    LET k == pt.current_phase
        pt1 == [pt EXCEPT !.phases[k].current_capital = new_capital]
    IN  IF new_capital >= pt1.phases[k].target_capital /\ ~pt1.phases[k].is_complete
        THEN _complete_phase(pt1, t)
        ELSE IF k > 1 /\ new_capital < pt1.phases[k].start_capital
        THEN [pt1 EXCEPT !.current_phase = k - 1]
        ELSE pt1

(* update_capital sealing only when the cycle target is met as well *)
update_capital_cycles(pt, new_capital, t) ==
    LET k == pt.current_phase
        pt1 == [pt EXCEPT !.phases[k].current_capital = new_capital]
    IN  IF /\ new_capital >= pt1.phases[k].target_capital
           /\ pt1.phases[k].completed_cycles >= pt1.phases[k].target_cycles
           /\ ~pt1.phases[k].is_complete
        THEN _complete_phase(pt1, t)
        ELSE pt1

update_capital(pt, new_capital, t) ==
    LET k == pt.current_phase
        pt1 == [pt EXCEPT !.phases[k].current_capital = new_capital]
    IN  IF new_capital >= pt1.phases[k].target_capital /\ ~pt1.phases[k].is_complete
        THEN _complete_phase(pt1, t)
        ELSE pt1

complete_cycle_phase_only(pt, profit) ==
    [pt EXCEPT !.phases[pt.current_phase].completed_cycles = @ + 1,
               !.total_profit = @ + profit]

complete_cycle(pt, profit) ==
    [pt EXCEPT !.phases[pt.current_phase].completed_cycles = @ + 1,
               !.total_cycles_completed = @ + 1,
               !.total_profit = @ + profit]

(* estimate_completion_time at clock t. estimated_days is <<>> (None) or <<tenths>>, *)
(* the value round(.., 1) keeps; avg_cycle_time_days and avg_roi_per_cycle are in      *)
(* hundredths, as round(.., 2) keeps them; estimated_date is the exact quotient n / d.  *)
estimate_completion_time(pt, t) ==
    IF pt.total_cycles_completed = 0
    THEN [estimated_days |-> <<>>, estimated_date |-> <<>>, avg_roi_per_cycle |-> 0,
          cycles_remaining |-> 28]
    ELSE LET round(n, d) ==
                 LET q == (2 * n + d) \div (2 * d)
                 IN  IF (2 * n + d) % (2 * d) = 0 /\ q % 2 = 1 THEN q - 1 ELSE q
             elapsed_time == t - pt.start_time
             total == pt.total_cycles_completed
             remaining[k \in pt.current_phase..5] ==
                 IF k = 5 THEN 0
                 ELSE (IF pt.phases[k].target_cycles > pt.phases[k].completed_cycles
                       THEN pt.phases[k].target_cycles - pt.phases[k].completed_cycles
                       ELSE 0) + remaining[k + 1]
             cycles_remaining == remaining[pt.current_phase]
         IN  [estimated_days |-> <<round(10 * cycles_remaining * elapsed_time, 86400 * total)>>,
              estimated_date |-> <<[n |-> t * total + cycles_remaining * elapsed_time,
                                    d |-> total]>>,
              avg_roi_per_cycle |->
                  round(100 * 100 * pt.total_profit, pt.starting_capital * total),
              cycles_remaining |-> cycles_remaining,
              avg_cycle_time_days |-> round(100 * elapsed_time, 86400 * total)]

(* A caller of the tracker's two mutators *)
PhaseUpdateCapital(new_capital) ==
    /\ phase_tracker' = update_capital(phase_tracker, new_capital, now)
    /\ UNCHANGED <<now, orders, grids, active_grids, grid_orders, grid_stats, total_profit,
                   total_cycles, total_grids_created, exchange_open, mon, cg, sa,
                   auto_compound_enabled, last_rebalance_time, ac, calc>>
    /\ UNCHANGED yvars

PhaseCompleteCycle(profit) ==
    /\ phase_tracker.total_cycles_completed < MaxCycles
    /\ phase_tracker' = complete_cycle(phase_tracker, profit)
    /\ UNCHANGED <<now, orders, grids, active_grids, grid_orders, grid_stats, total_profit,
                   total_cycles, total_grids_created, exchange_open, mon, cg, sa,
                   auto_compound_enabled, last_rebalance_time, ac, calc>>
    /\ UNCHANGED yvars

----------------------------------------------------------------------------
(* auto_compound_and_rebalance *)

num_symbols == 5
symbols == <<"PEPE/USDT", "FLOKI/USDT", "DOGE/USDT", "SHIB/USDT", "SUI/USDT">>

(* new_balance * 0.95 / num_symbols, in dollars (exact for Balances) *)
capital_per_grid(new_balance) == ((new_balance * 95) \div 100) \div num_symbols

(* The rebalance config with half of the grid's capital in every order *)
RebalanceConfig_half(cpg) ==
    [max_capital_usd |-> cpg,
     order_size_usd |-> cpg \div 2,
     grid_spacing_pct |-> 5, levels_above |-> 5, levels_below |-> 5]

(* The config dict of the rebalance; order size min(capital_per_grid / 10, 50) *)
RebalanceConfig(cpg) ==
    [max_capital_usd |-> cpg,
     order_size_usd |-> IF cpg \div 10 < 50 THEN cpg \div 10 ELSE 50,
     grid_spacing_pct |-> 5, levels_above |-> 5, levels_below |-> 5]

NoResult == [success |-> FALSE, message |-> "none", is_rebalanced |-> FALSE]
Disabled == [success |-> FALSE, message |-> "Auto-compounding disabled",
             is_rebalanced |-> FALSE]
NotNeeded == [success |-> TRUE, message |-> "Capital updated, no rebalancing needed",
              is_rebalanced |-> FALSE]
StopFailedResult == [success |-> FALSE, message |-> "Failed to stop grids for rebalancing",
                     is_rebalanced |-> FALSE]
Rebalanced == [success |-> TRUE, message |-> "Auto-compounded and rebalanced",
               is_rebalanced |-> TRUE]

(* stop: the stop_all_grids call awaited; create: the create_grid call     *)
(* awaited; todo: symbols left; created: the grid objects this call has    *)
(* built; failures: exchange calls of this call that failed; result: the   *)
(* dict returned by the last call.                                         *)
IdleCompound ==
    [pc |-> "idle", new_balance |-> 0, stop |-> IdleStop, create |-> IdleCreate,
     todo |-> <<>>, capital_per_grid |-> 0, grids_created |-> 0, created |-> <<>>,
     failures |-> 0, result |-> NoResult]

(* The loop over symbols from its head to the get_ticker call of the next  *)
(* create_grid, or the end of the rebalance.                               *)
CompoundNextSymbol(a, t) ==
    IF a.todo = <<>> \/ a.capital_per_grid < 20
    THEN [ac |-> [a EXCEPT !.pc = "idle", !.stop = IdleStop, !.create = IdleCreate,
                           !.todo = <<>>, !.result = Rebalanced],
          finished |-> TRUE]
    ELSE [ac |-> [a EXCEPT !.pc = "ticker", !.todo = Tail(a.todo),
                           !.create = [IdleCreate EXCEPT
                               !.pc = "ticker", !.symbol = Head(a.todo),
                               !.config = RebalanceConfig(a.capital_per_grid),
                               !.grid_id = GridId(Head(a.todo), t)]],
          finished |-> FALSE]

(* The code after `stop_result = await self.stop_all_grids()` *)
AfterStop(success, a, t) ==
    IF ~success
    THEN [ac |-> [a EXCEPT !.pc = "idle", !.stop = IdleStop, !.result = StopFailedResult],
          finished |-> FALSE]
    ELSE CompoundNextSymbol([a EXCEPT !.stop = IdleStop,
                                      !.capital_per_grid = capital_per_grid(a.new_balance),
                                      !.todo = symbols, !.grids_created = 0], t)

CompoundCall(new_balance) ==
    /\ ac.pc = "idle"
    /\ IF ~auto_compound_enabled
       THEN /\ ac' = [IdleCompound EXCEPT !.new_balance = new_balance, !.result = Disabled]
            /\ UNCHANGED <<phase_tracker, orders, active_grids, grid_orders,
                           last_rebalance_time>>
       ELSE /\ phase_tracker' = update_capital(phase_tracker, new_balance, now)
            /\ IF now - last_rebalance_time > 3600 /\ Len(active_grids) > 0
               THEN LET r == StopGridsFrom(orders, active_grids, grid_orders, IdleStop,
                                           DictKeys(active_grids))
                        a == [IdleCompound EXCEPT !.new_balance = new_balance]
                        n == AfterStop(r.success, a, now)
                    IN  /\ orders' = r.orders
                        /\ active_grids' = r.active_grids
                        /\ grid_orders' = r.grid_orders
                        /\ IF r.sa.pc = "cancel"
                           THEN /\ ac' = [a EXCEPT !.pc = "cancel", !.stop = r.sa]
                                /\ UNCHANGED last_rebalance_time
                           ELSE /\ ac' = n.ac
                                /\ last_rebalance_time' =
                                       IF n.finished THEN now ELSE last_rebalance_time
               ELSE /\ ac' = [IdleCompound EXCEPT !.new_balance = new_balance,
                                                  !.result = NotNeeded]
                    /\ UNCHANGED <<orders, active_grids, grid_orders, last_rebalance_time>>
    /\ UNCHANGED <<now, grids, grid_stats, total_profit, total_cycles, total_grids_created,
                   exchange_open, mon, cg, sa, auto_compound_enabled, calc>>
    /\ UNCHANGED yvars

CompoundCancelReturn(outcome) ==
    /\ ac.pc = "cancel"
    /\ outcome # "ok" => ac.failures < MaxFailures
    /\ LET r == StopAfterCancel(orders, active_grids, grid_orders, ac.stop, outcome)
           a == [ac EXCEPT !.failures = @ + (IF outcome = "ok" THEN 0 ELSE 1)]
           n == AfterStop(r.success, a, now)
       IN  /\ orders' = r.orders
           /\ active_grids' = r.active_grids
           /\ grid_orders' = r.grid_orders
           /\ IF r.sa.pc = "cancel"
              THEN /\ ac' = [a EXCEPT !.stop = r.sa]
                   /\ UNCHANGED last_rebalance_time
              ELSE /\ ac' = n.ac
                   /\ last_rebalance_time' =
                          IF n.finished THEN now ELSE last_rebalance_time
    /\ exchange_open' = IF outcome = "ok" THEN exchange_open \ {ac.stop.order}
                        ELSE exchange_open
    /\ UNCHANGED <<now, grids, grid_stats, total_profit, total_cycles, total_grids_created,
                   mon, cg, sa, phase_tracker, auto_compound_enabled, calc>>
    /\ UNCHANGED yvars

(* create_grid returned GRID_CREATION_ERROR *)
CompoundTickerRaise ==
    /\ ac.pc = "ticker"
    /\ ac.failures < MaxFailures
    /\ LET n == CompoundNextSymbol([ac EXCEPT !.failures = @ + 1], now)
       IN  /\ ac' = n.ac
           /\ last_rebalance_time' = IF n.finished THEN now ELSE last_rebalance_time
    /\ UNCHANGED <<now, orders, grids, active_grids, grid_orders, grid_stats, total_profit,
                   total_cycles, total_grids_created, exchange_open, mon, cg, sa,
                   phase_tracker, auto_compound_enabled, calc>>
    /\ UNCHANGED yvars

(* The awaited create_grid from the return of place_order (or from the     *)
(* grid's registration) up to its next place_order call, or up to its      *)
(* return and on into the loop over symbols.                               *)
CompoundCreateStep(r, a, placed, capital, stats) ==
    LET c == a.create
        grid_id == c.grid_id
        n == CompoundNextSymbol([a EXCEPT !.grids_created = @ + 1], now)
    IN  /\ orders' = r.orders
        /\ grid_orders' = r.grid_orders
        /\ IF r.order # None
           THEN /\ grids' = r.grids
                /\ grid_stats' = stats
                /\ total_grids_created' = total_grids_created
                /\ ac' = [a EXCEPT !.pc = "place",
                                   !.create = [c EXCEPT !.pc = "place", !.k = r.k,
                                                        !.order = r.order,
                                                        !.orders_placed = placed,
                                                        !.capital = capital]]
                /\ UNCHANGED last_rebalance_time
           ELSE /\ grids' = [r.grids EXCEPT ![c.grid].total_invested = capital]
                /\ grid_stats' = [stats EXCEPT ![grid_id].active_orders = placed]
                /\ total_grids_created' = total_grids_created + 1
                /\ ac' = n.ac
                /\ last_rebalance_time' = IF n.finished THEN now ELSE last_rebalance_time

CompoundTickerReturn(current_price, smart) ==
    /\ ac.pc = "ticker"
    /\ LET c == ac.create
           config == GridConfiguration(c.symbol, current_price, c.config, smart)
           gref == Len(grids) + 1
           grid_data == [grid_id |-> c.grid_id, config |-> config,
                         levels |-> _calculate_grid_levels(config), status |-> "active",
                         total_invested |-> 0, realized_pnl |-> FracZero]
           r == PlaceInitialFrom(orders, Append(grids, grid_data), grid_orders, gref, 1, now)
           a == [ac EXCEPT !.create.grid = gref, !.created = Append(@, gref)]
       IN  /\ active_grids' = DictPut(active_grids, c.grid_id, gref)
           /\ CompoundCreateStep(r, a, 0, 0,
                                 Put(grid_stats, c.grid_id, GridStats(c.grid_id)))
    /\ UNCHANGED <<now, total_profit, total_cycles, exchange_open, mon, cg, sa,
                   phase_tracker, auto_compound_enabled, calc>>
    /\ UNCHANGED yvars

CompoundPlaceReturn(outcome) ==
    /\ ac.pc = "place"
    /\ outcome # "ok" => ac.failures < MaxFailures
    /\ LET c == ac.create
           pr == PlaceResult(orders, grid_orders, c.order, outcome)
           ok == pr.order # None
           gs1 == IF ok THEN [grids EXCEPT ![c.grid].levels[c.k].buy_order = pr.order]
                  ELSE grids
           placed == c.orders_placed + (IF ok THEN 1 ELSE 0)
           capital == c.capital + (IF ok THEN grids[c.grid].config.order_size_usd ELSE 0)
           r == PlaceInitialFrom(pr.orders, gs1, pr.grid_orders, c.grid, c.k + 1, now)
           a == [ac EXCEPT !.failures = @ + (IF outcome = "ok" THEN 0 ELSE 1)]
       IN  CompoundCreateStep(r, a, placed, capital, grid_stats)
    /\ exchange_open' = IF outcome = "ok" THEN exchange_open \cup {ac.create.order}
                        ELSE exchange_open
    /\ UNCHANGED <<now, active_grids, total_profit, total_cycles, mon, cg, sa,
                   phase_tracker, auto_compound_enabled, calc>>
    /\ UNCHANGED yvars

(* The dashboard's toggle of auto_compound_enabled *)
ToggleAutoCompound ==
    /\ auto_compound_enabled' = ~auto_compound_enabled
    /\ UNCHANGED <<now, orders, grids, active_grids, grid_orders, grid_stats, total_profit,
                   total_cycles, total_grids_created, exchange_open, mon, cg, sa,
                   phase_tracker, last_rebalance_time, ac, calc>>
    /\ UNCHANGED yvars

(* The clock over the rebalance interval *)
ClockJump(d) ==
    /\ now + d <= MaxClock
    /\ now' = now + d
    /\ UNCHANGED <<orders, grids, active_grids, grid_orders, grid_stats, total_profit,
                   total_cycles, total_grids_created, exchange_open, mon, cg, sa,
                   phase_tracker, auto_compound_enabled, last_rebalance_time, ac, calc>>
    /\ UNCHANGED yvars

----------------------------------------------------------------------------
(* The level and spacing computations as called on their own.              *)
(*                                                                         *)
(* Units of this section: volatility.atr_24h and current_price in the same *)
(* price unit, std_dev_24h in 1/10000 (0.01 is 100), base_spacing_pct,     *)
(* recommended_spacing_pct and the two partial spacings in 1/1000 percent, *)
(* smart_spacing_pct in 1/10000 percent and final_spacing_pct in 1/100000  *)
(* percent, so that the weights 0.4/0.3/0.3 and the regime factors         *)
(* 0.8/1.2/1.5 are exact.                                                  *)

IdleCalc == [op |-> "none"]

(* The fields of the class that the name GridLevel denotes once the module *)
(* is loaded: the second `class GridLevel` statement (visualization        *)
(* record) rebinds the name of the first (ladder record).  None of its     *)
(* fields has a default.                                                   *)
GridLevelFields ==
    {"price", "order_type", "order_id", "quantity", "filled_quantity",
     "fill_percentage", "profit_potential", "created_at", "status",
     "distance_from_market"}

GridLevelRequired == GridLevelFields

(* The __init__ that @dataclass generates accepts a keyword call iff every *)
(* keyword is a field and every field without default is given; otherwise  *)
(* it raises TypeError.                                                    *)
DataclassAccepts(fields, required, kwargs) ==
    kwargs \subseteq fields /\ required \subseteq kwargs

(* A call of _calculate_grid_levels in the loaded module.  The constructor *)
(* call GridLevel(level=.., price=..) is reached iff a loop body runs; the *)
(* method has no handler, so the TypeError leaves it.                      *)
CallCalculateGridLevels(config) ==
    IF \/ config.levels_below + config.levels_above = 0
       \/ DataclassAccepts(GridLevelFields, GridLevelRequired, {"level", "price"})
    THEN [raised |-> "none", levels |-> _calculate_grid_levels(config)]
    ELSE [raised |-> "TypeError", levels |-> <<>>]

LevelConfigs ==
    [center_price : {0, 20000}, grid_spacing_pct : {0, 5},
     levels_below : 0..2, levels_above : 0..2]

CalcGridLevels(config) ==
    /\ calc' = [op |-> "levels", config |-> config,
                result |-> CallCalculateGridLevels(config)]
    /\ UNCHANGED <<now, orders, grids, active_grids, grid_orders, grid_stats,
                   total_profit, total_cycles, total_grids_created, exchange_open,
                   mon, cg, sa, phase_tracker, auto_compound_enabled,
                   last_rebalance_time, ac>>
    /\ UNCHANGED yvars

(* create_grid: the level adjustment by volatility regime, for one side *)
Regimes == {"LOW", "MEDIUM", "HIGH", "EXTREME", "UNKNOWN"}
LevelCounts == 1..10

CalcAdjustLevels(regime, n) ==
    /\ calc' = [op |-> "adjust", regime |-> regime, n |-> n,
                result |-> AdjustLevels(regime, n)]
    /\ UNCHANGED <<now, orders, grids, active_grids, grid_orders, grid_stats,
                   total_profit, total_cycles, total_grids_created, exchange_open,
                   mon, cg, sa, phase_tracker, auto_compound_enabled,
                   last_rebalance_time, ac>>
    /\ UNCHANGED yvars

(* calculate_market_volatility: the spacing and confidence it derives from *)
(* the score                                                               *)
RecommendedSpacing(volatility_score) ==
    IF volatility_score < 20 THEN 300
    ELSE IF volatility_score < 40 THEN 500
    ELSE IF volatility_score < 70 THEN 800
    ELSE 1200

Confidence(volatility_score) ==
    IF volatility_score < 40 THEN "HIGH" ELSE "MEDIUM"

MarketVolatility(atr_24h, std_dev_24h, volatility_score) ==
    [atr_24h |-> atr_24h, std_dev_24h |-> std_dev_24h,
     volatility_score |-> volatility_score,
     recommended_spacing_pct |-> RecommendedSpacing(volatility_score),
     confidence_level |-> Confidence(volatility_score)]

_create_default_volatility ==
    [atr_24h |-> 2, std_dev_24h |-> 100, volatility_score |-> 30,
     recommended_spacing_pct |-> 500, confidence_level |-> "LOW"]

(* The values calculate_market_volatility can return: the default, or a    *)
(* computed one, whose score is min(100, (std_dev*100 + range*50)*2) with  *)
(* range >= 0, hence at least std_dev*200.                                 *)
Volatilities ==
    {_create_default_volatility} \cup
    {MarketVolatility(x[1], x[2], x[3]) :
        x \in {y \in {0, 100, 1000} \X {0, 100, 500} \X {0, 19, 20, 39, 40, 69, 70, 100} :
                   y[3] * 50 >= y[2]}}

BaseSpacings == {100, 500, 3000}
CurrentPrices == {0, 20000}

Clamp(lo, hi, x) == IF x < lo THEN lo ELSE IF x > hi THEN hi ELSE x

RecommendedLevels_rising(score) ==
    IF score < 20 THEN 8 ELSE IF score < 40 THEN 6 ELSE IF score < 70 THEN 7 ELSE 4

(* calculate_smart_grid_range: recommended_levels of the regime branches *)
RecommendedLevels(score) ==
    IF score < 20 THEN 8 ELSE IF score < 40 THEN 6 ELSE IF score < 70 THEN 5 ELSE 4

(* calculate_smart_grid_range, given the volatility that                   *)
(* calculate_market_volatility returned.  The division by current_price    *)
(* raises ZeroDivisionError for a price of 0; the handler returns the      *)
(* fallback record.                                                        *)
calculate_smart_grid_range(volatility, base_spacing_pct, current_price) ==
    IF current_price = 0
    THEN [base_spacing_pct |-> base_spacing_pct,
          smart_spacing_pct |-> base_spacing_pct * 10,
          atr_based_spacing |-> base_spacing_pct,
          std_dev_based_spacing |-> base_spacing_pct,
          final_spacing_pct |-> base_spacing_pct * 100,
          volatility_regime |-> "UNKNOWN",
          recommended_levels |-> 5]
    ELSE
    LET atr_based_spacing ==
            Clamp(200, 2000, (volatility.atr_24h * 80000) \div current_price)
        std_dev_based_spacing == Clamp(300, 1500, volatility.std_dev_24h * 12)
        smart_spacing == atr_based_spacing * 4 + std_dev_based_spacing * 3
                         + volatility.recommended_spacing_pct * 3
        score == volatility.volatility_score
        regime == IF score < 20 THEN "LOW" ELSE IF score < 40 THEN "MEDIUM"
                  ELSE IF score < 70 THEN "HIGH" ELSE "EXTREME"
        final_spacing == IF score < 20 THEN smart_spacing * 8
                         ELSE IF score < 40 THEN smart_spacing * 10
                         ELSE IF score < 70 THEN smart_spacing * 12
                         ELSE smart_spacing * 15
        recommended_levels == RecommendedLevels(score)
    IN  [base_spacing_pct |-> base_spacing_pct,
         smart_spacing_pct |-> smart_spacing,
         atr_based_spacing |-> atr_based_spacing,
         std_dev_based_spacing |-> std_dev_based_spacing,
         final_spacing_pct |-> Clamp(20000, 250000, final_spacing),
         volatility_regime |-> regime,
         recommended_levels |-> recommended_levels]

CalcSmartRange(volatility, base_spacing_pct, current_price) ==
    /\ calc' = [op |-> "range", volatility |-> volatility,
                base_spacing_pct |-> base_spacing_pct,
                current_price |-> current_price,
                result |-> calculate_smart_grid_range(volatility, base_spacing_pct,
                                                      current_price)]
    /\ UNCHANGED <<now, orders, grids, active_grids, grid_orders, grid_stats,
                   total_profit, total_cycles, total_grids_created, exchange_open,
                   mon, cg, sa, phase_tracker, auto_compound_enabled,
                   last_rebalance_time, ac>>
    /\ UNCHANGED yvars

----------------------------------------------------------------------------
(* calculate_market_volatility and its cache.                              *)
(*                                                                         *)
(* A call suspends at the two fetch_ohlcv awaits of _get_historical_prices *)
(* (pc "fetch24", "fetch72"); the cache lookup before them and the         *)
(* computation and cache store after them run without interruption.  vc    *)
(* holds one record per call in progress; a call that has reached its      *)
(* return statement has pc "done" and carries what it fetched and what it  *)
(* returns, until its awaiter has resumed.  Candle values are in price     *)
(* units, returns and standard deviations in 1/10000.                      *)

MaxCalls == 2    \* concurrent calls of calculate_market_volatility

volatility_update_interval == 3600

exchanges == {"binance", "kucoin", "okx"}

VolRequests ==
    {<<"PEPE/USDT", "binance">>, <<"PEPE/USDT", "paper">>}

Candle(c) == [high |-> c, low |-> c, close |-> c]

(* what fetch_ohlcv can deliver: no, one or two candles *)
CandleSeries ==
    {<<>>, <<Candle(100)>>, <<Candle(0)>>, <<Candle(100), Candle(200)>>}

FetchOutcomes ==
    {[raised |-> FALSE, ohlcv |-> d] : d \in CandleSeries}
        \cup {[raised |-> TRUE, ohlcv |-> <<>>]}

cache_key(symbol, exchange) == symbol \o "_" \o exchange

Abs(x) == IF x < 0 THEN -x ELSE x
Max2(a, b) == IF a > b THEN a ELSE b
Min2(a, b) == IF a < b THEN a ELSE b

RECURSIVE SumSeq(_)
SumSeq(xs) == IF xs = <<>> THEN 0 ELSE xs[1] + SumSeq(Tail(xs))

SeqMax(xs) == CHOOSE m \in {xs[i] : i \in DOMAIN xs} : \A i \in DOMAIN xs : xs[i] <= m
SeqMin(xs) == CHOOSE m \in {xs[i] : i \in DOMAIN xs} : \A i \in DOMAIN xs : xs[i] >= m

ISqrt(n) == CHOOSE r \in 0..n : r * r <= n /\ (r + 1) * (r + 1) > n

(* statistics.stdev (sample standard deviation), rounded down *)
stdev(xs) ==
    LET n == Len(xs)
        mean == SumSeq(xs) \div n
    IN  ISqrt(SumSeq([i \in 1..n |-> (xs[i] - mean) * (xs[i] - mean)]) \div (n - 1))

(* _calculate_atr with period 14; 0.01 is 2 price units *)
_calculate_atr(price_data) ==
    IF Len(price_data) < 14 THEN 2
    ELSE LET true_ranges ==
                 [i \in 1..(Len(price_data) - 1) |->
                     Max2(price_data[i + 1].high - price_data[i + 1].low,
                          Max2(Abs(price_data[i + 1].high - price_data[i].close),
                               Abs(price_data[i + 1].low - price_data[i].close)))]
             n == Len(true_ranges)
         IN  SumSeq(SubSeq(true_ranges, Max2(1, n - 13), n)) \div Min2(14, n)

(* _calculate_returns: one return per candle whose predecessor closed above 0 *)
RECURSIVE ReturnsFrom(_, _)
ReturnsFrom(price_data, i) ==
    IF i > Len(price_data) THEN <<>>
    ELSE IF price_data[i - 1].close > 0
    THEN <<((price_data[i].close - price_data[i - 1].close) * 10000)
               \div price_data[i - 1].close>> \o ReturnsFrom(price_data, i + 1)
    ELSE ReturnsFrom(price_data, i + 1)

_calculate_returns(price_data) == ReturnsFrom(price_data, 2)

(* a MarketVolatility with its last_updated stamp *)
Stamped(volatility, t) == [volatility |-> volatility, last_updated |-> t]

(* `if not price_data_24h or not price_data_72h` *)
EmptySeries(price_data_24h, price_data_72h) ==
    price_data_24h = <<>> \/ price_data_72h = <<>>

(* calculate_market_volatility after the two fetches: the value returned   *)
(* and whether it is stored in the cache.  A lowest close of 0 raises      *)
(* ZeroDivisionError in the price range; the handler returns the default.  *)
ComputeVolatility(price_data_24h, price_data_72h, t) ==
    IF EmptySeries(price_data_24h, price_data_72h)
    THEN [stored |-> FALSE, value |-> Stamped(_create_default_volatility, t)]
    ELSE LET atr_24h == _calculate_atr(price_data_24h)
             returns_24h == _calculate_returns(price_data_24h)
             std_dev_24h == IF Len(returns_24h) > 1 THEN stdev(returns_24h) ELSE 100
             prices_24h == [i \in DOMAIN price_data_24h |-> price_data_24h[i].close]
             lo == SeqMin(prices_24h)
             hi == SeqMax(prices_24h)
         IN  IF lo = 0
             THEN [stored |-> FALSE, value |-> Stamped(_create_default_volatility, t)]
             ELSE LET volatility_score ==
                          Min2(100, std_dev_24h \div 50 + (100 * (hi - lo)) \div lo)
                  IN  [stored |-> TRUE,
                       value |-> Stamped(MarketVolatility(atr_24h, std_dev_24h,
                                                          volatility_score), t)]

CacheFresh_inclusive(cached, t) ==
    t - cached.last_updated <= volatility_update_interval

(* `time.time() - cached.last_updated < self.volatility_update_interval` *)
CacheFresh(cached, t) ==
    t - cached.last_updated < volatility_update_interval

CacheHit(cache, key, t) == DictHas(cache, key) /\ CacheFresh(DictGet(cache, key), t)

VolDone(symbol, exchange, d24, d72, fetches, hit, value, t) ==
    [symbol |-> symbol, exchange |-> exchange, pc |-> "done", started |-> t,
     price_data_24h |-> d24, price_data_72h |-> d72, fetches |-> fetches,
     hit |-> hit, result |-> value]

(* The call up to its return or its first fetch_ohlcv.  For an exchange    *)
(* the manager does not know, _get_historical_prices returns [] twice      *)
(* without suspending, and the default is returned.                        *)
VolCall(symbol, exchange) ==
    /\ Len(vc) < MaxCalls
    /\ LET key == cache_key(symbol, exchange) IN
       IF CacheHit(market_volatility_cache, key, now)
       THEN vc' = Append(vc, VolDone(symbol, exchange, <<>>, <<>>, 0, TRUE,
                                     DictGet(market_volatility_cache, key), now))
       ELSE IF exchange \notin exchanges
       THEN vc' = Append(vc, VolDone(symbol, exchange, <<>>, <<>>, 0, FALSE,
                                     ComputeVolatility(<<>>, <<>>, now).value, now))
       ELSE vc' = Append(vc, [VolDone(symbol, exchange, <<>>, <<>>, 0, FALSE,
                                      Stamped(_create_default_volatility, now), now)
                                 EXCEPT !.pc = "fetch24"])
    /\ UNCHANGED <<now, orders, grids, active_grids, grid_orders, grid_stats,
                   total_profit, total_cycles, total_grids_created, exchange_open,
                   mon, cg, sa, phase_tracker, auto_compound_enabled,
                   last_rebalance_time, ac, calc, market_volatility_cache,
                   active_cycles, cycle_metrics, performance_analytics>>
    /\ UNCHANGED <<completed_cycles, daily_pnl>>

(* fetch_ohlcv of call i returns a series or raises; a raise and an empty  *)
(* answer both make _get_historical_prices return [].                      *)
VolFetchReturn(i, outcome) ==
    /\ i \in DOMAIN vc
    /\ vc[i].pc \in {"fetch24", "fetch72"}
    /\ LET price_data == IF outcome.raised THEN <<>> ELSE outcome.ohlcv
           c == vc[i]
       IN  IF c.pc = "fetch24"
           THEN /\ vc' = [vc EXCEPT ![i].pc = "fetch72", ![i].price_data_24h = price_data,
                                    ![i].fetches = @ + 1]
                /\ UNCHANGED market_volatility_cache
           ELSE LET r == ComputeVolatility(c.price_data_24h, price_data, now) IN
                /\ vc' = [vc EXCEPT ![i].pc = "done", ![i].price_data_72h = price_data,
                                    ![i].fetches = @ + 1, ![i].result = r.value]
                /\ market_volatility_cache' =
                       IF r.stored
                       THEN DictPut(market_volatility_cache,
                                    cache_key(c.symbol, c.exchange), r.value)
                       ELSE market_volatility_cache
    /\ UNCHANGED <<now, orders, grids, active_grids, grid_orders, grid_stats,
                   total_profit, total_cycles, total_grids_created, exchange_open,
                   mon, cg, sa, phase_tracker, auto_compound_enabled,
                   last_rebalance_time, ac, calc, active_cycles, cycle_metrics,
                   performance_analytics>>
    /\ UNCHANGED <<completed_cycles, daily_pnl>>

(* the awaiter of call i resumes with the returned value *)
VolReturn(i) ==
    /\ i \in DOMAIN vc
    /\ vc[i].pc = "done"
    /\ vc' = SubSeq(vc, 1, i - 1) \o SubSeq(vc, i + 1, Len(vc))
    /\ UNCHANGED <<now, orders, grids, active_grids, grid_orders, grid_stats,
                   total_profit, total_cycles, total_grids_created, exchange_open,
                   mon, cg, sa, phase_tracker, auto_compound_enabled,
                   last_rebalance_time, ac, calc, market_volatility_cache,
                   active_cycles, cycle_metrics, performance_analytics>>
    /\ UNCHANGED <<completed_cycles, daily_pnl>>

----------------------------------------------------------------------------
(* Cycle tracking and performance analytics.                               *)
(*                                                                         *)
(* Capitals are dollars; ROI and drawdown are percentages kept as exact    *)
(* fractions.  While a cycle is tracked, calc records the capitals passed  *)
(* to update_cycle_metrics for it, in call order.                          *)

MaxTracked == 2   \* cycles started
MaxUpdates == 2   \* update_cycle_metrics calls recorded for one cycle

CycleSymbols == <<"PEPE/USDT", "BTC/USDT">>
StartingCapitals == {100}
CycleCapitals == {90, 110}
TradeCounts == {1}

FracLess(a, b) == a.n * b.d < b.n * a.d
FracMax(a, b) == IF FracLess(a, b) THEN b ELSE a

CycleId(symbol, t) == <<symbol, t>>

CycleMetrics(symbol, starting_capital, t) ==
    [cycle_id |-> CycleId(symbol, t), symbol |-> symbol, start_time |-> t,
     end_time |-> <<>>, duration_hours |-> FracZero, roi_percentage |-> FracZero,
     max_drawdown |-> FracZero, total_trades |-> 0, profit_usd |-> 0,
     starting_capital |-> starting_capital, peak_capital |-> starting_capital,
     final_capital |-> starting_capital, is_complete |-> FALSE]

start_cycle_tracking(cycles, symbol, starting_capital, t) ==
    DictPut(cycles, CycleId(symbol, t), CycleMetrics(symbol, starting_capital, t))

update_cycle_metrics_peak_follows(cycles, cycle_id, current_capital, trades_count) ==
    IF ~DictHas(cycles, cycle_id) THEN cycles
    ELSE LET cycle == DictGet(cycles, cycle_id)
         IN  DictPut(cycles, cycle_id,
                 [cycle EXCEPT !.final_capital = current_capital,
                               !.peak_capital = current_capital,
                               !.total_trades = trades_count,
                               !.profit_usd = current_capital - cycle.starting_capital])

update_cycle_metrics(cycles, cycle_id, current_capital, trades_count) ==
    IF ~DictHas(cycles, cycle_id) THEN cycles
    ELSE LET cycle == DictGet(cycles, cycle_id)
             peak_capital == IF current_capital > cycle.peak_capital
                             THEN current_capital ELSE cycle.peak_capital
             current_drawdown == Frac((peak_capital - current_capital) * 100, peak_capital)
         IN  DictPut(cycles, cycle_id,
                 [cycle EXCEPT
                     !.final_capital = current_capital,
                     !.peak_capital = peak_capital,
                     !.roi_percentage = Frac((current_capital - cycle.starting_capital) * 100,
                                             cycle.starting_capital),
                     !.max_drawdown = IF peak_capital > cycle.starting_capital
                                      THEN FracMax(cycle.max_drawdown, current_drawdown)
                                      ELSE cycle.max_drawdown,
                     !.total_trades = trades_count,
                     !.profit_usd = current_capital - cycle.starting_capital])

CyclesOf(symbol) ==
    IF symbol \in DOMAIN cycle_metrics THEN cycle_metrics[symbol] ELSE <<>>

TrackedCycles ==
    Len(active_cycles) + SumSeq([i \in 1..Len(CycleSymbols) |-> Len(CyclesOf(CycleSymbols[i]))])

StartCycleTracking(symbol, starting_capital) ==
    /\ TrackedCycles < MaxTracked
    /\ active_cycles' = start_cycle_tracking(active_cycles, symbol, starting_capital, now)
    /\ calc' = [op |-> "cycle", cycle_id |-> CycleId(symbol, now), capitals |-> <<>>]
    /\ UNCHANGED <<now, orders, grids, active_grids, grid_orders, grid_stats,
                   total_profit, total_cycles, total_grids_created, exchange_open,
                   mon, cg, sa, phase_tracker, auto_compound_enabled,
                   last_rebalance_time, ac, market_volatility_cache, vc,
                   cycle_metrics, performance_analytics>>
    /\ UNCHANGED <<completed_cycles, daily_pnl>>

UpdateCycleMetrics(cycle_id, current_capital, trades_count) ==
    /\ calc.op = "cycle"
    /\ active_cycles' = update_cycle_metrics(active_cycles, cycle_id, current_capital,
                                             trades_count)
    /\ IF calc.cycle_id = cycle_id /\ DictHas(active_cycles, cycle_id)
       THEN /\ Len(calc.capitals) < MaxUpdates
            /\ calc' = [calc EXCEPT !.capitals = Append(@, current_capital)]
       ELSE calc' = calc
    /\ UNCHANGED <<now, orders, grids, active_grids, grid_orders, grid_stats,
                   total_profit, total_cycles, total_grids_created, exchange_open,
                   mon, cg, sa, phase_tracker, auto_compound_enabled,
                   last_rebalance_time, ac, market_volatility_cache, vc,
                   cycle_metrics, performance_analytics>>
    /\ UNCHANGED <<completed_cycles, daily_pnl>>

(* Exact fractions in lowest terms, for the statistics *)
RECURSIVE GCD(_, _)
GCD(a, b) == IF b = 0 THEN a ELSE GCD(b, a % b)

FracNorm(f) ==
    LET g == GCD(Abs(f.n), Abs(f.d))
        sgn == IF f.d < 0 THEN -1 ELSE 1
    IN  IF g = 0 THEN f ELSE Frac(sgn * (f.n \div g), sgn * (f.d \div g))

FracPlus(a, b) == FracNorm(Frac(a.n * b.d + b.n * a.d, a.d * b.d))
FracMinus(a, b) == FracNorm(Frac(a.n * b.d - b.n * a.d, a.d * b.d))
FracTimes(a, b) == FracNorm(Frac(a.n * b.n, a.d * b.d))
FracOver(a, b) == FracNorm(Frac(a.n * b.d, a.d * b.n))
FracAbs(a) == Frac(Abs(a.n), Abs(a.d))

RECURSIVE FracSum(_)
FracSum(xs) == IF xs = <<>> THEN FracZero ELSE FracPlus(FracNorm(xs[1]), FracSum(Tail(xs)))

(* statistics.mean *)
mean(xs) == FracOver(FracSum(xs), Frac(Len(xs), 1))

(* the square of statistics.stdev: the sample variance *)
variance(xs) ==
    LET m == mean(xs) IN
    FracOver(FracSum([i \in DOMAIN xs |-> FracTimes(FracMinus(xs[i], m), FracMinus(xs[i], m))]),
             Frac(Len(xs) - 1, 1))

FracSeqMax(xs) ==
    FracNorm(CHOOSE m \in {xs[i] : i \in DOMAIN xs} : \A i \in DOMAIN xs : ~FracLess(m, xs[i]))
FracSeqMin(xs) ==
    FracNorm(CHOOSE m \in {xs[i] : i \in DOMAIN xs} : \A i \in DOMAIN xs : ~FracLess(xs[i], m))

(* x / sqrt(v): a quotient by a standard deviation, kept as numerator and  *)
(* squared denominator                                                     *)
OverRoot(x, v) == [num |-> x, den_sq |-> v]
Plain(x) == OverRoot(x, Frac(1, 1))

Infinity == Frac(1, 0)

(* update_performance_analytics: the PerformanceAnalytics of a non-empty   *)
(* list of cycles with at least one complete cycle                         *)
Analytics(symbol, cycles) ==
    LET completed == SelectSeq(cycles, LAMBDA c : c.is_complete)
        durations == SelectSeq([i \in DOMAIN completed |->
                                    completed[i].duration_hours],
                               LAMBDA d : d.n # 0)
        rois == [i \in DOMAIN completed |-> completed[i].roi_percentage]
        avg_roi == mean(rois)
        profits == [i \in DOMAIN completed |-> completed[i].profit_usd]
        drawdowns == [i \in DOMAIN completed |-> completed[i].max_drawdown]
        max_drawdown == FracSeqMax(drawdowns)
        sharpe_ratio == IF Len(rois) > 1 /\ FracPos(variance(rois))
                        THEN OverRoot(avg_roi, variance(rois)) ELSE Plain(FracZero)
        negative_rois == SelectSeq(rois, LAMBDA r : FracLess(r, FracZero))
        winning_cycles == Len(SelectSeq(rois, LAMBDA r : FracLess(FracZero, r)))
        gross_profit == SumSeq([i \in DOMAIN profits |->
                                   IF profits[i] > 0 THEN profits[i] ELSE 0])
        gross_loss == Abs(SumSeq([i \in DOMAIN profits |->
                                     IF profits[i] < 0 THEN profits[i] ELSE 0]))
        volatility_sq == IF Len(rois) > 1 THEN variance(rois) ELSE FracZero
    IN  [symbol |-> symbol,
         total_cycles |-> Len(cycles),
         completed_cycles |-> Len(completed),
         avg_cycle_duration |-> IF durations = <<>> THEN FracZero ELSE mean(durations),
         avg_roi_per_cycle |-> avg_roi,
         total_profit |-> SumSeq(profits),
         max_drawdown |-> max_drawdown,
         sharpe_ratio |-> sharpe_ratio,
         sortino_ratio |-> IF Len(negative_rois) > 1
                           THEN (IF variance(negative_rois).n # 0
                                 THEN OverRoot(avg_roi, variance(negative_rois))
                                 ELSE Plain(FracZero))
                           ELSE sharpe_ratio,
         win_rate |-> FracNorm(Frac(winning_cycles * 100, Len(rois))),
         profit_factor |-> IF gross_loss > 0 THEN FracNorm(Frac(gross_profit, gross_loss))
                           ELSE Infinity,
         volatility |-> OverRoot(volatility_sq, Frac(1, 1)),
         best_cycle_roi |-> FracSeqMax(rois),
         worst_cycle_roi |-> FracSeqMin(rois),
         consistency_score |-> IF FracPos(volatility_sq)
                               THEN OverRoot(FracAbs(avg_roi), volatility_sq)
                               ELSE Plain(Frac(100, 1)),
         risk_adjusted_return |-> FracOver(avg_roi, FracMax(max_drawdown, Frac(1, 1)))]

HasCompleted(metrics, symbol) ==
    /\ symbol \in DOMAIN metrics
    /\ \E i \in DOMAIN metrics[symbol] : metrics[symbol][i].is_complete

update_performance_analytics_accumulating(analytics, metrics, symbol) ==
    IF ~HasCompleted(metrics, symbol) THEN analytics
    ELSE Put(analytics, symbol,
             [Analytics(symbol, metrics[symbol]) EXCEPT
                 !.total_profit = @ + (IF symbol \in DOMAIN analytics
                                       THEN analytics[symbol].total_profit ELSE 0)])

(* update_performance_analytics: the new self.performance_analytics *)
update_performance_analytics(analytics, metrics, symbol) ==
    IF ~HasCompleted(metrics, symbol) THEN analytics
    ELSE Put(analytics, symbol, Analytics(symbol, metrics[symbol]))

(* GridTradingEngine.complete_cycle *)
EngineCompleteCycle(cycle_id) ==
    /\ DictHas(active_cycles, cycle_id)
    /\ LET active == DictGet(active_cycles, cycle_id)
           cycle == [active EXCEPT
                        !.end_time = <<now>>,
                        !.duration_hours = FracNorm(Frac(now - active.start_time, 3600)),
                        !.is_complete = TRUE]
           metrics == Put(cycle_metrics, cycle.symbol,
                          Append(CyclesOf(cycle.symbol), cycle))
       IN  /\ cycle_metrics' = metrics
           /\ active_cycles' = DictDel(active_cycles, cycle_id)
           /\ performance_analytics' =
                  update_performance_analytics(performance_analytics, metrics, cycle.symbol)
           /\ calc' = [op |-> "complete_cycle", cycle_id |-> cycle_id]
    /\ UNCHANGED <<now, orders, grids, active_grids, grid_orders, grid_stats,
                   total_profit, total_cycles, total_grids_created, exchange_open,
                   mon, cg, sa, phase_tracker, auto_compound_enabled,
                   last_rebalance_time, ac, market_volatility_cache, vc>>
    /\ UNCHANGED <<completed_cycles, daily_pnl>>

UpdatePerformanceAnalytics(symbol) ==
    /\ performance_analytics' =
           update_performance_analytics(performance_analytics, cycle_metrics, symbol)
    /\ calc' = [op |-> "analytics", symbol |-> symbol]
    /\ UNCHANGED <<now, orders, grids, active_grids, grid_orders, grid_stats,
                   total_profit, total_cycles, total_grids_created, exchange_open,
                   mon, cg, sa, phase_tracker, auto_compound_enabled,
                   last_rebalance_time, ac, market_volatility_cache, vc,
                   active_cycles, cycle_metrics>>
    /\ UNCHANGED <<completed_cycles, daily_pnl>>

----------------------------------------------------------------------------
(* record_completed_cycle                                                  *)
(*                                                                         *)
(* Inputs are pairs <<profit, initial_capital>> in dollars.  A day of      *)
(* daily_pnl is the number of the day of the clock.  calc records the      *)
(* result the call returned.                                               *)

MaxRecorded == 3   \* cycles recorded in completed_cycles

RecordSymbols == {"PEPE/USDT"}
RecordInputs == {<<50, 200>>, <<-10, 200>>, <<50, 0>>}

RecordCompletedCycle(symbol, profit, initial_capital) ==
    /\ IF initial_capital = 0
       THEN \* roi_pct raises ZeroDivisionError
            /\ calc' = [op |-> "record", result |-> [success |-> FALSE]]
            /\ UNCHANGED <<phase_tracker, completed_cycles, daily_pnl>>
       ELSE LET roi_pct == Frac(profit * 100, initial_capital)
                completed_cycle ==
                    [cycle_id |-> <<"cycle", symbol, now>>, symbol |-> symbol,
                     start_time |-> now - 3600, end_time |-> now,
                     initial_capital |-> initial_capital,
                     final_capital |-> initial_capital + profit,
                     profit |-> profit, roi_pct |-> roi_pct,
                     phase |-> phase_tracker.current_phase,
                     cycle_number |-> phase_tracker.total_cycles_completed + 1]
                today == now \div 86400
                tracker == complete_cycle(phase_tracker, profit)
            IN  /\ Len(completed_cycles) < MaxRecorded
                /\ completed_cycles' = Append(completed_cycles, completed_cycle)
                /\ phase_tracker' = tracker
                /\ daily_pnl' = Put(daily_pnl, today,
                                    (IF today \in DOMAIN daily_pnl THEN daily_pnl[today] ELSE 0)
                                        + profit)
                /\ calc' = [op |-> "record",
                            result |-> [success |-> TRUE,
                                        cycle_id |-> completed_cycle.cycle_id,
                                        profit |-> profit, roi_pct |-> roi_pct,
                                        phase |-> tracker.current_phase,
                                        total_cycles |-> tracker.total_cycles_completed]]
    /\ UNCHANGED <<now, orders, grids, active_grids, grid_orders, grid_stats,
                   total_profit, total_cycles, total_grids_created, exchange_open,
                   mon, cg, sa, auto_compound_enabled, last_rebalance_time, ac,
                   market_volatility_cache, vc, active_cycles, cycle_metrics,
                   performance_analytics>>

----------------------------------------------------------------------------
(* Clock, specification *)

ClockTick ==
    /\ now < MaxTime
    /\ now' = now + 1
    /\ UNCHANGED <<orders, grids, active_grids, grid_orders, grid_stats, total_profit,
                   total_cycles, total_grids_created, exchange_open, mon, cg, sa>>
    /\ UNCHANGED xvars

Init ==
    /\ now = 0
    /\ orders = <<>>
    /\ grids = <<>>
    /\ active_grids = <<>>
    /\ grid_orders = <<>>
    /\ grid_stats = <<>>
    /\ total_profit = FracZero
    /\ total_cycles = 0
    /\ total_grids_created = 0
    /\ exchange_open = {}
    /\ mon = IdleMon
    /\ cg = IdleCreate
    /\ sa = IdleStop
    /\ phase_tracker = PhaseTracker(200, 0)
    /\ auto_compound_enabled = TRUE
    /\ last_rebalance_time = 0
    /\ ac = IdleCompound
    /\ calc = IdleCalc
    /\ market_volatility_cache = <<>>
    /\ vc = <<>>
    /\ active_cycles = <<>>
    /\ cycle_metrics = <<>>
    /\ performance_analytics = <<>>
    /\ completed_cycles = <<>>
    /\ daily_pnl = <<>>

Next ==
    \/ ClockTick
    \/ \E symbol \in Symbols, config \in UserConfigs : CreateCall(symbol, config)
    \/ CreateTickerRaise
    \/ \E p \in TickerPrices, smart \in SmartRanges : CreateTickerReturn(p, smart)
    \/ \E outcome \in PlaceOutcomes : CreatePlaceReturn(outcome)
    \/ MonitorBegin
    \/ MonTickerRaise
    \/ \E p \in TickerPrices : MonTickerReturn(p)
    \/ \E outcome \in PlaceOutcomes : MonPlaceReturn(outcome)
    \/ StopAllCall
    \/ \E outcome \in CancelOutcomes : StopAllCancelReturn(outcome)
    \/ \E grid_id \in {active_grids[i].key : i \in 1..Len(active_grids)} : stop_grid(grid_id)

Spec == Init /\ [][Next]_vars

(* The phase tracker driven by its two mutators *)
NextPhase ==
    \/ \E c \in Capitals : PhaseUpdateCapital(c)
    \/ \E profit \in CycleProfits : PhaseCompleteCycle(profit)

SpecPhase == Init /\ [][NextPhase]_vars

(* The auto-compounder with a caller that creates grids between rebalances *)
NextCompound ==
    \/ \E d \in ClockJumps : ac.pc = "idle" /\ cg.pc = "idle" /\ ClockJump(d)
    \/ ac.pc = "idle" /\ ToggleAutoCompound
    \/ \E symbol \in Symbols, config \in RebalanceUserConfigs :
           ac.pc = "idle" /\ grids = <<>> /\ now = 0 /\ CreateCall(symbol, config)
    \/ \E p \in CenterPrices, smart \in SmartRanges : CreateTickerReturn(p, smart)
    \/ \E outcome \in PlaceOutcomes : CreatePlaceReturn(outcome)
    \/ \E new_balance \in Balances : cg.pc = "idle" /\ CompoundCall(new_balance)
    \/ \E outcome \in CancelOutcomes : CompoundCancelReturn(outcome)
    \/ CompoundTickerRaise
    \/ \E p \in CenterPrices, smart \in RebalanceSmartRanges :
           CompoundTickerReturn(p, smart)
    \/ \E outcome \in PlaceOutcomes : CompoundPlaceReturn(outcome)

SpecCompound == Init /\ [][NextCompound]_vars

(* The monitor loop with its scheduling: the event loop resumes a task     *)
(* whose sleep has elapsed, and every awaited exchange call returns or     *)
(* raises.  stop_all_grids is called while a tick is in flight over two    *)
(* grids, the case in which a grid of the tick's snapshot disappears.      *)
NextLive ==
    \/ ClockTick
    \/ \E symbol \in Symbols, config \in RebalanceUserConfigs : CreateCall(symbol, config)
    \/ CreateTickerRaise
    \/ \E p \in CenterPrices, smart \in SmartRanges : CreateTickerReturn(p, smart)
    \/ \E outcome \in PlaceOutcomes : CreatePlaceReturn(outcome)
    \/ MonitorBegin
    \/ MonTickerRaise
    \/ \E p \in TickerPrices : MonTickerReturn(p)
    \/ \E outcome \in PlaceOutcomes : MonPlaceReturn(outcome)
    \/ mon.pc # "sleep" /\ Len(active_grids) = 2 /\ StopAllCall
    \/ \E outcome \in CancelOutcomes : StopAllCancelReturn(outcome)

SpecLive ==
    /\ Init /\ [][NextLive]_vars
    /\ WF_vars(MonitorBegin)
    /\ WF_vars(MonTickerRaise \/ \E p \in TickerPrices : MonTickerReturn(p))
    /\ WF_vars(\E outcome \in PlaceOutcomes : MonPlaceReturn(outcome))

(* Cycles recorded by record_completed_cycle between capital updates *)
NextRecord ==
    \/ \E c \in Capitals : PhaseUpdateCapital(c)
    \/ \E symbol \in RecordSymbols, input \in RecordInputs :
           RecordCompletedCycle(symbol, input[1], input[2])

SpecRecord == Init /\ [][NextRecord]_vars

(* The computations called on their own, for every input of the sets above *)
NextCalc ==
    \/ \E regime \in Regimes, n \in LevelCounts : CalcAdjustLevels(regime, n)
    \/ \E config \in LevelConfigs : CalcGridLevels(config)
    \/ \E volatility \in Volatilities, base_spacing_pct \in BaseSpacings,
          current_price \in CurrentPrices :
              CalcSmartRange(volatility, base_spacing_pct, current_price)

SpecCalc == Init /\ [][NextCalc]_vars

(* Cycle tracking calls under a moving clock *)
NextCycles ==
    \/ ClockTick
    \/ \E i \in DOMAIN CycleSymbols, starting_capital \in StartingCapitals :
           StartCycleTracking(CycleSymbols[i], starting_capital)
    \/ \E t \in 0..MaxTime, i \in DOMAIN CycleSymbols, current_capital \in CycleCapitals,
          trades_count \in TradeCounts :
           UpdateCycleMetrics(CycleId(CycleSymbols[i], t), current_capital, trades_count)
    \/ \E t \in 0..MaxTime, i \in DOMAIN CycleSymbols :
           EngineCompleteCycle(CycleId(CycleSymbols[i], t))
    \/ \E i \in DOMAIN CycleSymbols : UpdatePerformanceAnalytics(CycleSymbols[i])

SpecCycles == Init /\ [][NextCycles]_vars

(* Callers of calculate_market_volatility under a moving clock *)
NextVol ==
    \/ ClockTick
    \/ \E d \in ClockJumps : ClockJump(d)
    \/ \E request \in VolRequests : VolCall(request[1], request[2])
    \/ \E i \in 1..MaxCalls, outcome \in FetchOutcomes : VolFetchReturn(i, outcome)
    \/ \E i \in 1..MaxCalls : VolReturn(i)

SpecVol == Init /\ [][NextVol]_vars

----------------------------------------------------------------------------
(* Properties *)

Handles == 1..Len(orders)
ActiveIds == {active_grids[i].key : i \in 1..Len(active_grids)}
ActiveRefs == {active_grids[i].ref : i \in 1..Len(active_grids)}
LevelIdx(g) == 1..Len(grids[g].levels)

(* A sell order created by _create_profit_sell_order and accepted by the exchange *)
ProfitSell(h) ==
    /\ orders[h].side = "sell"
    /\ orders[h].submit = "ok"

(* The fill rule of _check_filled_orders was met for the profit sell h in  *)
(* the check of its grid that the current tick has completed.              *)
SellReached(h) ==
    /\ mon.checked # <<>>
    /\ ProfitSell(h)
    /\ orders[h].status \in {"active", "filled"}
    /\ orders[h].grid_id = mon.checked[1]
    /\ orders[h].grid_id \in ActiveIds
    /\ mon.checked[2] >= orders[h].price

StatusMoves ==
    {<<"pending", "active">>, <<"active", "filled">>, <<"active", "cancelled">>,
     <<"pending", "failed">>}
C9_FailedRecorded ==
    \A h \in Handles :
        orders[h].submit = "failed" =>
            /\ orders[h].status = "failed"
            /\ DictHas(grid_orders, orders[h].order_id)
            /\ DictGet(grid_orders, orders[h].order_id) = h

(* C10: a submission failure is surfaced only after the submission was     *)
(* re-attempted.                                                           *)
C10_RetriedBeforeSurfaced ==
    \A h \in Handles : orders[h].submit = "failed" => orders[h].attempts > 1

----------------------------------------------------------------------------
(* Properties of the phase tracker *)

CurrentPhase == phase_tracker.phases[phase_tracker.current_phase]

(* C11: after update_capital or complete_cycle has returned, the current   *)
(* phase is not left unsealed with its capital at or above its target      *)
(* capital or its completed cycles at or above its target cycles.          *)
C11_AdvancementChecked ==
    ~CurrentPhase.is_complete =>
        /\ CurrentPhase.current_capital < CurrentPhase.target_capital
        /\ CurrentPhase.completed_cycles < CurrentPhase.target_cycles

(* C12: current_phase stays in 1..4, never decreases and grows by at most  *)
(* one per operation; update_capital below the current target leaves it    *)
(* unchanged; a sealed phase stays sealed and a sealed phase 4 keeps        *)
(* current_phase at 4.                                                     *)
C12_PhasesForward ==
    [][/\ phase_tracker'.current_phase \in 1..4
       /\ phase_tracker'.current_phase \in
              {phase_tracker.current_phase, phase_tracker.current_phase + 1}
       /\ \A c \in Capitals :
              (c < CurrentPhase.target_capital /\ PhaseUpdateCapital(c))
                  => phase_tracker'.current_phase = phase_tracker.current_phase
       /\ \A k \in 1..4 :
              phase_tracker.phases[k].is_complete => phase_tracker'.phases[k].is_complete
       /\ phase_tracker.phases[4].is_complete => phase_tracker'.current_phase = 4]_vars

(* All four phases were traversed and the roadmap is finished *)
C12_RoadmapFinished ==
    /\ phase_tracker.current_phase = 4
    /\ \A k \in 1..4 : phase_tracker.phases[k].is_complete

(* C13: update_capital(c) with c at or above the target capital of the     *)
(* current, unsealed phase k < 4 seals phase k (is_complete, end time set) *)
(* and makes phase k + 1 current, whatever the number of cycles of phase k. *)
C13_CapitalSeals ==
    [][\A c \in Capitals :
           LET k == phase_tracker.current_phase IN
           (/\ k < 4
            /\ ~CurrentPhase.is_complete
            /\ c >= CurrentPhase.target_capital
            /\ PhaseUpdateCapital(c))
               => /\ phase_tracker'.phases[k].is_complete
                  /\ phase_tracker'.phases[k].end_time # <<>>
                  /\ phase_tracker'.current_phase = k + 1]_vars

(* Phase 1 was sealed by a capital update with fewer than its 8 cycles *)
C13_SealedEarly ==
    /\ phase_tracker.phases[1].is_complete
    /\ phase_tracker.phases[1].completed_cycles > 0
    /\ phase_tracker.phases[1].completed_cycles < phase_tracker.phases[1].target_cycles
    /\ phase_tracker.current_phase = 2

----------------------------------------------------------------------------
(* Properties of the auto-compounder *)

(* An auto_compound_and_rebalance call has returned *)
CompoundReturned == ac.pc = "idle" /\ ac.result # NoResult

(* C14: after every auto_compound_and_rebalance(new_balance) call the      *)
(* tracked capital of the current phase is new_balance.                    *)
C14_BalanceForwarded ==
    CompoundReturned => CurrentPhase.current_capital = ac.new_balance

(* The quote capital of buy order h: amount x price *)
OrderCapital(h) == (orders[h].amount.n * orders[h].price) \div orders[h].amount.d

(* The capital committed to the accepted buy orders of the grids gs *)
RECURSIVE LevelsCapital(_, _)
LevelsCapital(g, k) ==
    IF k = 0 THEN 0
    ELSE LET b == grids[g].levels[k].buy_order
         IN  LevelsCapital(g, k - 1)
                 + (IF b # None /\ orders[b].submit = "ok" THEN OrderCapital(b) ELSE 0)

RECURSIVE Committed(_)
Committed(gs) ==
    IF gs = <<>> THEN 0
    ELSE LevelsCapital(Head(gs), Len(grids[Head(gs)].levels)) + Committed(Tail(gs))

(* C15: a call rebalances only if at least 3600 seconds have passed since  *)
(* the last rebalance and a grid is active; otherwise it leaves the        *)
(* orders, the active grids, the order table and last_rebalance_time       *)
(* unchanged and reports that no rebalancing was needed.                   *)
C15_RebalanceOnlyWhenDue ==
    [][\A new_balance \in Balances :
           CompoundCall(new_balance) =>
               LET due == /\ now - last_rebalance_time >= 3600
                          /\ active_grids # <<>>
               IN  /\ (ac'.pc # "idle" \/ ac'.result \in {Rebalanced, StopFailedResult})
                          => due
                   /\ ~due => /\ UNCHANGED <<orders, grids, active_grids, grid_orders,
                                            exchange_open, last_rebalance_time>>
                              /\ ac'.result = NotNeeded]_vars

(* C16: the capital committed to the orders of the grids recreated by a    *)
(* rebalance with balance B is at most 95% of B.                           *)
C16_BufferKept ==
    Committed(ac.created) * 100 <= 95 * ac.new_balance

(* A rebalance recreated all five grids with every buy order accepted *)
C16_AllRecreated ==
    /\ CompoundReturned
    /\ ac.result = Rebalanced
    /\ ac.grids_created = num_symbols
    /\ \A i \in 1..Len(ac.created) :
           \A k \in LevelIdx(ac.created[i]) :
               grids[ac.created[i]].levels[k].level < 0
                   => grids[ac.created[i]].levels[k].buy_order # None
    /\ Committed(ac.created) > 0

----------------------------------------------------------------------------
(* Properties of the monitor loop *)

AllGridIds == {GridId(symbol, t) : symbol \in Symbols, t \in 0..MaxTime}

(* _monitor_grid(id) is running *)
Monitoring(id) == mon.pc \in {"ticker", "place"} /\ mon.grid_id = id

(* The grids of the tick's snapshot that the for loop has not reached yet *)
Snapshot(m) == {m.todo[i] : i \in 1..Len(m.todo)}

(* C17: no step of a tick, failed or not, drops a grid of the tick's       *)
(* snapshot that is still active: it stays in the snapshot or is the grid  *)
(* being monitored; and whenever the loop's sleep has elapsed, every       *)
(* active grid is monitored again (or has left the active set).            *)
C17_LoopIsolated ==
    /\ [][\A id \in Snapshot(mon) :
              DictHas(active_grids', id) => (id \in Snapshot(mon') \/ Monitoring(id)')]_vars
    /\ \A id \in AllGridIds :
           (mon.pc = "sleep" /\ now > mon.slept_at /\ DictHas(active_grids, id))
               ~> (Monitoring(id) \/ ~DictHas(active_grids, id))

(* A tick went on to the second grid of its snapshot after get_ticker      *)
(* raised for the first.                                                   *)
C17_SecondGridAfterFailure ==
    /\ mon.pc = "ticker"
    /\ mon.checked = <<>>
    /\ Len(active_grids) = 2
    /\ mon.grid_id = active_grids[2].key
    /\ mon.todo = <<>>

(* C18: for any GridConfiguration the level computation returns exactly    *)
(* levels_below levels of negative index and levels_above levels of        *)
(* positive index, with prices strictly increasing with the index.         *)
C18_LevelLadder ==
    calc.op = "levels" =>
        LET r == calc.result
            c == calc.config
        IN  /\ r.raised = "none"
            /\ Cardinality({j \in DOMAIN r.levels : r.levels[j].level < 0}) = c.levels_below
            /\ Cardinality({j \in DOMAIN r.levels : r.levels[j].level > 0}) = c.levels_above
            /\ \A i, j \in DOMAIN r.levels :
                   r.levels[i].level < r.levels[j].level
                       => r.levels[i].price < r.levels[j].price

(* create_grid returns success in this step; the grid object it built *)
CreateSucceeds ==
    /\ cg.pc # "idle"
    /\ cg'.pc = "idle"
    /\ total_grids_created' = total_grids_created + 1

CreatedGrid == IF cg.pc = "place" THEN cg.grid ELSE Len(grids) + 1

C20_SpacingClamped ==
    calc.op = "range" =>
        /\ calc.result.final_spacing_pct >= 20000
        /\ calc.result.final_spacing_pct <= 250000

(* C21: the recommended level count of calculate_smart_grid_range is       *)
(* non-increasing in the volatility score: every score of 0..100 at or     *)
(* above the score of the call made gives, for the same other inputs, a    *)
(* count that is not larger than the one returned.                         *)
C21_LevelsNonIncreasing ==
    calc.op = "range" =>
        \A s2 \in 0..100 :
            calc.volatility.volatility_score <= s2 =>
                calculate_smart_grid_range(
                    [calc.volatility EXCEPT !.volatility_score = s2,
                                            !.recommended_spacing_pct = RecommendedSpacing(s2),
                                            !.confidence_level = Confidence(s2)],
                    calc.base_spacing_pct, calc.current_price).recommended_levels
                    <= calc.result.recommended_levels

(* a call in the LOW regime that returned 8 levels, compared with all higher regimes *)
C21_LowRegimeCall ==
    /\ calc.op = "range"
    /\ calc.current_price # 0
    /\ calc.volatility.volatility_score = 19
    /\ calc.result.recommended_levels = 8

(* C22: for a configured level count n >= 1 of one side, the adjusted      *)
(* count is at least n in the LOW regime, at most n in the HIGH and        *)
(* EXTREME regimes, and n in MEDIUM.                                       *)
C22_RegimeAdjustment ==
    (calc.op = "adjust" /\ calc.n >= 1) =>
        /\ calc.regime = "LOW" => calc.result >= calc.n
        /\ calc.regime \in {"HIGH", "EXTREME"} => calc.result <= calc.n
        /\ calc.regime = "MEDIUM" => calc.result = calc.n

(* C23: a call of calculate_market_volatility that fetched a short or a    *)
(* long series of fewer than 2 candles returns the default volatility      *)
(* (score 30, spacing 0.5 percent, confidence LOW).                        *)
C23_DefaultOnShortSeries ==
    \A i \in DOMAIN vc :
        (/\ vc[i].pc = "done"
         /\ vc[i].fetches = 2
         /\ (Len(vc[i].price_data_24h) < 2 \/ Len(vc[i].price_data_72h) < 2))
            => /\ vc[i].result.volatility.volatility_score = 30
               /\ vc[i].result.volatility.recommended_spacing_pct = 500
               /\ vc[i].result.volatility.confidence_level = "LOW"

(* C24: a caller that arrives while the cache holds an entry of its        *)
(* (symbol, exchange) younger than one hour returns that entry and starts  *)
(* no candle fetch, also while other callers are in progress; a returned   *)
(* cache entry is never one hour old or older, and a caller that finds     *)
(* such an entry fetches before it returns.                                *)
C24_CacheWithinTtl ==
    /\ [][\A request \in VolRequests :
              LET key == cache_key(request[1], request[2])
                  n == Len(vc) + 1
              IN  (/\ Len(vc') = n
                   /\ vc'[n].symbol = request[1]
                   /\ vc'[n].exchange = request[2]
                   /\ DictHas(market_volatility_cache, key))
                      => LET entry == DictGet(market_volatility_cache, key) IN
                         IF now - entry.last_updated < 3600
                         THEN /\ vc' = Append(vc, vc'[n])
                              /\ vc'[n].pc = "done"
                              /\ vc'[n].fetches = 0
                              /\ vc'[n].result = entry
                              /\ market_volatility_cache' = market_volatility_cache
                         ELSE /\ vc'[n].pc = "fetch24"
                              /\ vc'[n].fetches = 0
         ]_vars
    /\ [](\A i \in DOMAIN vc :
              vc[i].pc = "done" =>
                  vc[i].started - vc[i].result.last_updated < 3600)

(* a caller served from the cache, with an entry stored before its        *)
(* arrival, while another call is suspended at a fetch                     *)
C24_ServedFromCache ==
    \E i, j \in DOMAIN vc :
        /\ vc[i].hit
        /\ vc[i].started > vc[i].result.last_updated
        /\ vc[j].pc \in {"fetch24", "fetch72"}
        /\ vc[j].exchange = vc[i].exchange

(* The largest gap, in percent of the running peak, between the running    *)
(* peak and the capital, over the capitals in call order                   *)
RECURSIVE DrawdownOver(_, _, _)
DrawdownOver(peak, capitals, worst) ==
    IF capitals = <<>> THEN worst
    ELSE LET c == Head(capitals)
             p == IF c > peak THEN c ELSE peak
         IN  DrawdownOver(p, Tail(capitals), FracMax(worst, Frac((p - c) * 100, p)))

(* C25: after any sequence of update_cycle_metrics calls on an active      *)
(* cycle, max_drawdown is the largest gap between the running peak capital *)
(* and the capital of an update, relative to the peak, also when the       *)
(* capital never exceeded the starting capital.                            *)
C25_RunningDrawdown ==
    (calc.op = "cycle" /\ DictHas(active_cycles, calc.cycle_id)) =>
        LET cycle == DictGet(active_cycles, calc.cycle_id) IN
        FracEq(cycle.max_drawdown,
               DrawdownOver(cycle.starting_capital, calc.capitals, FracZero))

(* C26: update_performance_analytics is idempotent and local.  In a state  *)
(* whose last call was update_performance_analytics(symbol), calling it    *)
(* again for that symbol yields the analytics already stored; and a call   *)
(* changes neither the cycle records nor the analytics of another symbol.  *)
C26_AnalyticsIdempotent ==
    /\ [](calc.op = "analytics" =>
              update_performance_analytics(performance_analytics, cycle_metrics,
                                           calc.symbol) = performance_analytics)
    /\ [][calc'.op = "analytics" =>
              /\ cycle_metrics' = cycle_metrics
              /\ active_cycles' = active_cycles
              /\ \A symbol \in DOMAIN performance_analytics :
                     symbol # calc'.symbol =>
                         /\ symbol \in DOMAIN performance_analytics'
                         /\ performance_analytics'[symbol] = performance_analytics[symbol]
              /\ DOMAIN performance_analytics' \subseteq
                     DOMAIN performance_analytics \cup {calc'.symbol}
         ]_vars

(* update_performance_analytics called again for a symbol that has stored  *)
(* analytics of two completed cycles with different results                *)
C26_AnalyticsRecomputed ==
    /\ calc.op = "analytics"
    /\ calc.symbol \in DOMAIN performance_analytics
    /\ performance_analytics[calc.symbol].completed_cycles = 2
    /\ performance_analytics[calc.symbol].volatility.num.n # 0

C31_NextPhaseStartsAtSeal ==
    [][\A c \in Capitals :
           LET k == phase_tracker.current_phase IN
           (/\ k < 4
            /\ ~CurrentPhase.is_complete
            /\ c >= CurrentPhase.target_capital
            /\ PhaseUpdateCapital(c))
               => /\ phase_tracker'.phases[k + 1].start_time = <<now>>
                  /\ phase_tracker'.phases[k].current_capital = c
                  /\ phase_tracker'.phases[k + 1].start_capital = c]_vars

(* C32: estimate_completion_time reports no estimate exactly when no cycle *)
(* has completed, and the cycles_remaining it reports is the sum over the  *)
(* current and the later phases of max(0, target_cycles - completed_cycles). *)
C32_EtaAndCyclesRemaining ==
    LET estimate == estimate_completion_time(phase_tracker, now)
        left(k) == IF phase_tracker.phases[k].target_cycles
                          > phase_tracker.phases[k].completed_cycles
                   THEN phase_tracker.phases[k].target_cycles
                            - phase_tracker.phases[k].completed_cycles
                   ELSE 0
        owed == {k \in 1..4 : k >= phase_tracker.current_phase /\ left(k) > 0}
        due[ks \in SUBSET owed] ==
            IF ks = {} THEN 0
            ELSE LET k == CHOOSE x \in ks : TRUE IN left(k) + due[ks \ {k}]
    IN  /\ estimate.estimated_days = <<>> <=> phase_tracker.total_cycles_completed = 0
        /\ estimate.cycles_remaining = due[owed]

(* C33: a cycle is finalized exactly once.  complete_cycle on an active    *)
(* cycle appends it, complete and with its end time, to the completed list *)
(* of its symbol, removes it from the active cycles and recomputes the     *)
(* analytics; complete_cycle or update_cycle_metrics with the id of a      *)
(* completed cycle changes nothing; the entries of a completed list never  *)
(* change and no cycle id occurs twice in one.                             *)
C33_FinalizedOnce ==
    /\ [][\A i \in DOMAIN CycleSymbols :
              LET symbol == CycleSymbols[i]
                  done == CyclesOf(symbol)
                  after == IF symbol \in DOMAIN cycle_metrics'
                           THEN cycle_metrics'[symbol] ELSE <<>>
              IN  /\ Len(after) >= Len(done)
                  /\ SubSeq(after, 1, Len(done)) = done
                  /\ \A t \in 0..MaxTime :
                         LET cycle_id == CycleId(symbol, t) IN
                         /\ EngineCompleteCycle(cycle_id) =>
                                LET cycle == after[Len(done) + 1] IN
                                /\ Len(after) = Len(done) + 1
                                /\ cycle.cycle_id = cycle_id
                                /\ cycle.is_complete
                                /\ cycle.end_time = <<now>>
                                /\ ~DictHas(active_cycles', cycle_id)
                                /\ performance_analytics'[symbol].completed_cycles
                                       = Len(done) + 1
                         /\ (/\ \E j \in DOMAIN done : done[j].cycle_id = cycle_id
                             /\ \/ EngineCompleteCycle(cycle_id)
                                \/ \E current_capital \in CycleCapitals,
                                      trades_count \in TradeCounts :
                                       UpdateCycleMetrics(cycle_id, current_capital,
                                                          trades_count))
                                => UNCHANGED <<active_cycles, cycle_metrics,
                                               performance_analytics>>
         ]_vars
    /\ [](\A i \in DOMAIN CycleSymbols :
              LET done == CyclesOf(CycleSymbols[i]) IN
              \A j, k \in DOMAIN done : j # k => done[j].cycle_id # done[k].cycle_id)

C39_RecordedCyclesCounted ==
    /\ [](/\ phase_tracker.total_cycles_completed =
                 phase_tracker.phases[1].completed_cycles
                     + phase_tracker.phases[2].completed_cycles
                     + phase_tracker.phases[3].completed_cycles
                     + phase_tracker.phases[4].completed_cycles
          /\ phase_tracker.total_cycles_completed = Len(completed_cycles)
          /\ \A i \in DOMAIN completed_cycles : completed_cycles[i].cycle_number = i)
    /\ [][\A symbol \in RecordSymbols, input \in RecordInputs :
              (input[2] = 0 /\ RecordCompletedCycle(symbol, input[1], input[2]))
                  => /\ ~calc'.result.success
                     /\ UNCHANGED <<completed_cycles, phase_tracker, daily_pnl>>
         ]_vars

(* a failed record_completed_cycle call after cycles were recorded in two phases *)
C39_FailedAfterRecords ==
    /\ calc.op = "record"
    /\ ~calc.result.success
    /\ Len(completed_cycles) >= 2
    /\ completed_cycles[1].phase # completed_cycles[Len(completed_cycles)].phase
    /\ 0 \in DOMAIN daily_pnl

C37_RebalanceLeavesGrid ==
    [][(ac.pc # "idle" /\ ac'.pc = "idle" /\ ac'.result.is_rebalanced)
           => active_grids' # <<>>]_vars

====
